---- MODULE Spec2Model ----
(***************************************************************************)
(* Callao personal cloud file server (src/server/callao_server.py).        *)
(*                                                                         *)
(* The server is an http.server.HTTPServer (not a threading server), so    *)
(* one request handler runs at a time: every handler is one action.        *)
(* The durable store is the SQLite file callao.db (tables users, sessions, *)
(* activity_logs); CallaoServer.sessions is the in-memory session cache.   *)
(* The shared tree is a Windows drive root ("G:\"), so os.path is ntpath.   *)
(***************************************************************************)
EXTENDS Integers, Sequences, FiniteSets, TLC

VARIABLES
    users,        \* table users: id -> [username, password, role, is_active]
    db_sessions,  \* table sessions: token -> [user_id, expires_at]
    sessions,     \* CallaoServer.sessions (cache): token -> [user_id, expires_at]
    activity_logs,\* table activity_logs, in insertion order
    now,          \* the wall clock read by datetime.now()
    next_token,   \* the next value secrets.token_urlsafe returns
    restarting,   \* a delayed_restart thread has been started
    fs,           \* the filesystem: real path -> [kind, content]
    resp,         \* the request just handled and its response
    inflight,     \* per client connection: the request it sent and how far
                  \* the server has got with it
    multipart     \* a multipart/form-data request and what
                  \* parse_multipart_form_data returned for it

vars == <<users, db_sessions, sessions, activity_logs, now, next_token,
          restarting, fs, resp, inflight, multipart>>

\* ------------------------------------------------------------------ bounds
MaxTime == 3
MaxTokens == 4
MaxLog == 3
MaxUsers == 3
MaxContent == 3

\* session_timeout, in clock ticks of the model
SessionTimeout == 2
\* max_file_size, in bytes of the model
MaxFileSize == 2

\* ------------------------------------------------------------- vocabulary
NoToken == 0
\* what a client can present: no bearer token, or a token that was issued
TokenInputs == {NoToken} \cup 1..(next_token - 1)
NoUser == 0
NoSession == [user_id |-> NoUser, expires_at |-> 0]
NoField == "<absent>"

Passwords == {"admin123", "pw"}
Roles == {"admin", "user"}

Restrict(f, S) == [x \in S |-> f[x]]


\* ----------------------------------------------------- SQLite and Python
\* "WHERE id = ?" with a text parameter: the INTEGER column affinity
\* converts a numeric text before comparing; 0 stands for "matches no row"
SqlId(text) ==
    CASE text = "1" -> 1
      [] text = "2" -> 2
      [] text = "2.0" -> 2
      [] text = "3" -> 3
      [] OTHER -> 0

\* int(user_id) of a path segment; -1 stands for ValueError
PyInt(text) ==
    CASE text = "1" -> 1
      [] text = "2" -> 2
      [] text = "3" -> 3
      [] OTHER -> -1

IdTexts == {"1", "2", "2.0"}

\* the JSON user_id of change-password: a number, a string, or missing
JsonIds == {[kind |-> "num", text |-> "1"], [kind |-> "num", text |-> "2"],
            [kind |-> "str", text |-> "2"], [kind |-> "none", text |-> ""]}

\* session['user_id'] == user_id in Python: an int never equals a str
PyEqId(uid, json) == json.kind = "num" /\ uid = PyInt(json.text)

\* verify_password(password, hash_password(p)): the salted digest matches
\* exactly when the passwords are equal
verify_password(password, password_hash) == password = password_hash
hash_password(password) == password

\* ------------------------------------------------------------ the records
\* a text (target, details, a client path) is the sequence of its tokens
Entry(user_id, action, target, status, details) ==
    [user_id |-> user_id, action |-> action, target |-> target,
     status |-> status, details |-> details]

\* a log_activity whose INSERT is lost
log_activity_lost(logs, user_id, action, target, status, details) == logs

\* a log_activity that keeps the table at its size: the oldest row goes
log_activity_rotating(logs, user_id, action, target, status, details) ==
    Append(IF logs = <<>> THEN logs ELSE Tail(logs),
           Entry(user_id, action, target, status, details))

\* log_activity: INSERT INTO activity_logs
log_activity(logs, user_id, action, target, status, details) ==
    Append(logs, Entry(user_id, action, target, status, details))

\* the request just handled: the handler, the bearer token presented, the
\* status of the response (0: none was sent) and the real paths the handler
\* asked the operating system about
ResponseAt(op, token, status, touched) ==
    [op |-> op, token |-> token, status |-> status, touched |-> touched]
Response(op, token, status) == ResponseAt(op, token, status, {})

\* ---------------------------------------------------------- SessionStore
\* a cleanup_expired_sessions whose DELETE matches no row
cleanup_db_none(db, t) == db

\* cleanup_expired_sessions at clock reading t
cleanup_db(db, t) ==
    Restrict(db, {k \in DOMAIN db : ~(db[k].expires_at < t)})
cleanup_cache(sess, t) ==
    Restrict(sess, {k \in DOMAIN sess : ~(t >= sess[k].expires_at)})

\* a validate_session that knows the cache only
validate_session_cache_only(sess, db, token, t) ==
    IF token \in DOMAIN sess /\ t < sess[token].expires_at
    THEN [session |-> sess[token], sessions |-> sess, db |-> db]
    ELSE [session |-> NoSession,
          sessions |-> Restrict(sess, DOMAIN sess \ {token}), db |-> db]

\* validate_session: the session (or NoSession) and the two layers after it.
\* A handler runs within one reading t of the clock (Tick moves the clock
\* between requests), so every datetime.now() of the call returns t.
validate_session(sess, db, token, t) ==
    IF token = NoToken
    THEN [session |-> NoSession, sessions |-> sess, db |-> db]
    ELSE IF token \in DOMAIN sess /\ t < sess[token].expires_at
    THEN [session |-> sess[token], sessions |-> sess, db |-> db]
    ELSE LET s1 == Restrict(sess, DOMAIN sess \ {token})
         IN  IF token \in DOMAIN db
             THEN IF t < db[token].expires_at
                  THEN [session |-> db[token],
                        sessions |-> [k \in DOMAIN s1 \cup {token} |->
                                        IF k = token THEN db[token] ELSE s1[k]],
                        db |-> db]
                  ELSE [session |-> NoSession,
                        sessions |-> cleanup_cache(s1, t),
                        db |-> cleanup_db(db, t)]
             ELSE [session |-> NoSession, sessions |-> s1, db |-> db]

\* a get_auth_user that does not look at is_active
get_auth_user_any(usrs, sess, db, token, t) ==
    LET v == validate_session(sess, db, token, t)
        uid == v.session.user_id
    IN  [user |-> IF v.session # NoSession /\ uid \in DOMAIN usrs
                  THEN uid ELSE NoUser,
         sessions |-> v.sessions, db |-> v.db]

\* get_auth_user: the id of the authenticated user, or NoUser
get_auth_user(usrs, sess, db, token, t) ==
    LET v == validate_session(sess, db, token, t)
        uid == v.session.user_id
    IN  [user |-> IF v.session # NoSession /\ uid \in DOMAIN usrs
                     /\ usrs[uid].is_active
                  THEN uid ELSE NoUser,
         sessions |-> v.sessions, db |-> v.db]

\* a require_auth that does not compare the role
require_auth_any_role(usrs, sess, db, token, required_role, t) ==
    LET a == get_auth_user(usrs, sess, db, token, t)
    IN  [user |-> a.user, principal |-> a.user,
         sessions |-> a.sessions, db |-> a.db]

\* require_auth: user is the principal the handler may act for (NoUser when
\* denied); principal is what get_auth_user returned
require_auth(usrs, sess, db, token, required_role, t) ==
    LET a == get_auth_user(usrs, sess, db, token, t)
    IN  [user |-> IF a.user = NoUser THEN NoUser
                  ELSE IF required_role # NoField
                          /\ usrs[a.user].role # required_role
                  THEN NoUser ELSE a.user,
         principal |-> a.user, sessions |-> a.sessions, db |-> a.db]

\* create_session: DELETE the user's rows, INSERT the new row, cache it
create_session_db(db, user_id, token, t) ==
    LET kept == {k \in DOMAIN db : db[k].user_id # user_id}
    IN  [k \in kept \cup {token} |->
            IF k = token THEN [user_id |-> user_id,
                               expires_at |-> t + SessionTimeout]
            ELSE db[k]]
create_session_cache(sess, user_id, token, t) ==
    [k \in DOMAIN sess \cup {token} |->
        IF k = token THEN [user_id |-> user_id,
                           expires_at |-> t + SessionTimeout]
        ELSE sess[k]]


\* ------------------------------------------------------ ntpath on tokens
\* A path is the sequence of its tokens: a separator, a drive, "..", "." or
\* a piece of a name.  The shared tree is the drive root G:\ .
Sep(tok) == tok \in {"/", "\\"}
Drives == {"G:", "g:", "C:"}
drive_path == <<"G:", "\\">>

lower(drive) ==
    IF drive = <<"G:">> THEN <<"g:">>
    ELSE IF drive = <<"C:">> THEN <<"c:">> ELSE drive

\* str.lstrip('/')
RECURSIVE lstrip(_)
lstrip(p) == IF p # <<>> /\ p[1] = "/" THEN lstrip(Tail(p)) ELSE p

\* ntpath.splitdrive (no UNC prefix occurs among the inputs)
splitdrive(p) ==
    IF p # <<>> /\ p[1] \in Drives
    THEN [drive |-> <<p[1]>>, path |-> Tail(p)]
    ELSE [drive |-> <<>>, path |-> p]

\* ntpath.join(a, p)
join(a, p) ==
    LET r == splitdrive(a)
        q == splitdrive(p)
        appended ==
            (IF r.path # <<>> /\ ~Sep(r.path[Len(r.path)])
             THEN r.path \o <<"\\">> ELSE r.path) \o q.path
    IN  IF q.path # <<>> /\ Sep(q.path[1])
        THEN (IF q.drive # <<>> \/ r.drive = <<>> THEN q.drive ELSE r.drive)
             \o q.path
        ELSE IF q.drive # <<>> /\ q.drive # r.drive
        THEN IF lower(q.drive) # lower(r.drive)
             THEN q.drive \o q.path
             ELSE q.drive \o appended
        ELSE r.drive \o appended

\* the components between the separators of a path, empty ones dropped
RECURSIVE SplitAcc(_, _, _)
SplitAcc(p, cur, out) ==
    IF p = <<>> THEN (IF cur = <<>> THEN out ELSE Append(out, cur))
    ELSE IF Sep(p[1])
    THEN SplitAcc(Tail(p), <<>>, IF cur = <<>> THEN out ELSE Append(out, cur))
    ELSE SplitAcc(Tail(p), Append(cur, p[1]), out)
SplitComps(p) == SplitAcc(p, <<>>, <<>>)

\* normpath's loop over the components: "." is dropped, ".." removes the
\* component before it, and is itself dropped at the root
RECURSIVE Collapse(_, _, _)
Collapse(comps, root, out) ==
    IF comps = <<>> THEN out
    ELSE LET c == comps[1]
         IN  IF c = <<".">> THEN Collapse(Tail(comps), root, out)
             ELSE IF c = <<"..">>
             THEN IF out # <<>> /\ out[Len(out)] # <<"..">>
                  THEN Collapse(Tail(comps), root,
                                SubSeq(out, 1, Len(out) - 1))
                  ELSE IF out = <<>> /\ root
                  THEN Collapse(Tail(comps), root, out)
                  ELSE Collapse(Tail(comps), root, Append(out, c))
             ELSE Collapse(Tail(comps), root, Append(out, c))

RECURSIVE JoinComps(_)
JoinComps(comps) ==
    IF comps = <<>> THEN <<>>
    ELSE IF Len(comps) = 1 THEN comps[1]
    ELSE comps[1] \o <<"\\">> \o JoinComps(Tail(comps))

\* ntpath.normpath
normpath(p) ==
    LET d == splitdrive(p)
        root == d.path # <<>> /\ Sep(d.path[1])
        comps == Collapse(SplitComps(d.path), root, <<>>)
        out == d.drive \o (IF root THEN <<"\\">> ELSE <<>>) \o JoinComps(comps)
    IN  IF out = <<>> THEN <<".">> ELSE out

\* a prefix check that compares nothing
startswith_unchecked(p, prefix) == TRUE

\* str.startswith
startswith(p, prefix) ==
    Len(p) >= Len(prefix) /\ SubSeq(p, 1, Len(prefix)) = prefix

LastSep(p) ==
    IF \E i \in 1..Len(p) : Sep(p[i])
    THEN CHOOSE i \in 1..Len(p) :
            Sep(p[i]) /\ \A j \in (i + 1)..Len(p) : ~Sep(p[j])
    ELSE 0

\* a basename that keeps the directories of the name
basename_kept(p) == p

\* ntpath.basename
basename(p) ==
    LET q == splitdrive(p).path
    IN  SubSeq(q, LastSep(q) + 1, Len(q))

RECURSIVE rstrip_seps(_)
rstrip_seps(p) ==
    IF p # <<>> /\ Sep(p[Len(p)]) THEN rstrip_seps(SubSeq(p, 1, Len(p) - 1))
    ELSE p

\* ntpath.dirname
dirname(p) ==
    LET d == splitdrive(p)
        head == SubSeq(d.path, 1, LastSep(d.path))
    IN  d.drive \o (IF rstrip_seps(head) = <<>> THEN head
                    ELSE rstrip_seps(head))

\* ntpath.splitext of a file name: the extension is the last piece that
\* starts with a dot, unless only dots precede it
Exts == {".t", "."}
splitext(name) ==
    IF Len(name) > 1 /\ name[Len(name)] \in Exts
       /\ \E i \in 1..(Len(name) - 1) : name[i] \notin {".", ".."}
    THEN [base |-> SubSeq(name, 1, Len(name) - 1),
          ext |-> <<name[Len(name)]>>]
    ELSE [base |-> name, ext |-> <<>>]

\* str.replace('//', '/')
RECURSIVE replace_slashes(_)
replace_slashes(p) ==
    IF Len(p) < 2 THEN p
    ELSE IF p[1] = "/" /\ p[2] = "/"
    THEN <<"/">> \o replace_slashes(SubSeq(p, 3, Len(p)))
    ELSE <<p[1]>> \o replace_slashes(Tail(p))

\* ------------------------------------------------- multipart/form-data
\* A byte string is the sequence of its tokens: the bytes "\r", "\n", "-" and
\* the bytes of contents one by one, and the words of the headers, none of
\* which holds a byte of the delimiter.
Boundary == <<"B">>

\* bytes.find from index start on: the index of the first occurrence, 0 if none
find(s, sub, start) ==
    LET hits == {i \in start..(Len(s) - Len(sub) + 1) :
                    SubSeq(s, i, i + Len(sub) - 1) = sub}
    IN  IF hits = {} THEN 0 ELSE CHOOSE i \in hits : \A j \in hits : i <= j

\* bytes.split(sep)
RECURSIVE split(_, _)
split(s, sep) ==
    LET i == find(s, sep, 1)
    IN  IF i = 0 THEN <<s>>
        ELSE <<SubSeq(s, 1, i - 1)>> \o split(SubSeq(s, i + Len(sep), Len(s)), sep)

\* an rstrip that removes nothing
rstrip_none(s, chars) == s

\* bytes.rstrip(chars): every trailing byte that is one of chars goes
RECURSIVE rstrip(_, _)
rstrip(s, chars) ==
    IF s # <<>> /\ s[Len(s)] \in chars
    THEN rstrip(SubSeq(s, 1, Len(s) - 1), chars)
    ELSE s

\* parse_multipart_form_data on the Content-Type header and the body, whose
\* length is what Content-Length announces.  It returns (None, None) when it
\* gives up and the two dicts otherwise: the field returned tells which.
parse_multipart_form_data(content_type, body) ==
    LET CRLF == <<"\r", "\n">>
        blanks == {" ", "\r", "\n"}
        \* sub in s
        contains(s, sub) == find(s, sub, 1) # 0
        \* str.strip(): the blanks at both ends go
        RECURSIVE lstrip_blanks(_)
        lstrip_blanks(s) ==
            IF s # <<>> /\ s[1] \in blanks THEN lstrip_blanks(Tail(s)) ELSE s
        strip(s) == rstrip(lstrip_blanks(s), blanks)
        \* the boundary parameter of the Content-Type value, <<>> when the
        \* value has none
        RECURSIVE boundary_of(_)
        boundary_of(params) ==
            IF params = <<>> THEN <<>>
            ELSE IF contains(Head(params), <<"boundary=">>)
            THEN strip(split(Head(params), <<"boundary=">>)[2])
            ELSE boundary_of(Tail(params))
        boundary == boundary_of(split(content_type, <<";">>))
        \* bytes.decode('utf-8', errors='ignore'): a byte that is no UTF-8
        \* is dropped
        decode_ignore(s) == SelectSeq(s, LAMBDA b : b # "0xFF")
        \* line[start:end] for the value that follows key in a header line,
        \* where end = line.find('"', start) and -1 stands for the last index
        quoted_after(line, key) ==
            LET start == find(line, key, 1) + Len(key)
                end == find(line, <<"\"">>, start)
            IN  IF end = 0 THEN SubSeq(line, start, Len(line) - 1)
                ELSE SubSeq(line, start, end - 1)
        \* the Content-Disposition lines of a header section, read in order
        RECURSIVE disposition(_, _)
        disposition(lines, found) ==
            IF lines = <<>> THEN found
            ELSE LET line == Head(lines)
                     name_key == <<"name=\"">>
                     filename_key == <<"file", "name=\"">>
                     seen == IF startswith(line, <<"Content-Disposition:">>)
                             THEN [field_name |->
                                      IF contains(line, name_key)
                                      THEN quoted_after(line, name_key)
                                      ELSE found.field_name,
                                   filename |->
                                      IF contains(line, filename_key)
                                      THEN quoted_after(line, filename_key)
                                      ELSE found.filename]
                             ELSE found
                 IN  disposition(Tail(lines), seen)
        \* the for loop over the parts: files and form_data after the parts left
        RECURSIVE parse_parts(_, _)
        parse_parts(parts, acc) ==
            IF parts = <<>> THEN acc
            ELSE LET part == Head(parts)
                     halves == split(part, CRLF \o CRLF)
                     headers_section == halves[1]
                     \* split(b'\r\n\r\n', 1): the rest of the part after the first
                     content ==
                         rstrip(SubSeq(part, Len(headers_section) + 5, Len(part)),
                                {"\r", "\n", "-"})
                     d == disposition(split(decode_ignore(headers_section), CRLF),
                                      [field_name |-> <<>>, filename |-> <<>>])
                     put(m, v) == [k \in DOMAIN m \cup {d.field_name} |->
                                      IF k = d.field_name THEN v ELSE m[k]]
                     next == IF part = <<>> \/ part = <<"-", "-">> \o CRLF
                                \/ part = <<"-", "-">>
                             THEN acc
                             ELSE IF ~contains(part, CRLF \o CRLF) THEN acc
                             ELSE IF d.field_name = <<>> THEN acc
                             ELSE IF d.filename # <<>>
                             THEN [acc EXCEPT !.files =
                                      put(@, [filename |-> d.filename,
                                              content |-> content])]
                             ELSE [acc EXCEPT !.form_data =
                                      put(@, decode_ignore(content))]
                 IN  parse_parts(Tail(parts), next)
        None == [returned |-> "None", files |-> <<>>, form_data |-> <<>>]
    IN  IF ~startswith(content_type, <<"multipart/form-data">>) THEN None
        ELSE IF boundary = <<>> THEN None
        ELSE IF Len(body) = 0 THEN None
        ELSE parse_parts(split(body, <<"-", "-">> \o boundary),
                         [returned |-> "dicts", files |-> <<>>,
                          form_data |-> <<>>])

\* what the client's requests.post(files=..., data=...) puts on the wire for
\* a list of parts: each part between delimiter lines, a closing delimiter
RECURSIVE encode_parts(_)
encode_parts(parts) ==
    LET CRLF == <<"\r", "\n">>
    IN  IF parts = <<>> THEN <<"-", "-">> \o Boundary \o <<"-", "-">> \o CRLF
        ELSE LET p == Head(parts)
                 head == <<"-", "-">> \o Boundary \o CRLF
                           \o <<"Content-Disposition:", " ", "form-data", ";",
                                " ", "name=\"">> \o p.name \o <<"\"">>
                 file == <<";", " ", "file", "name=\"">> \o p.filename
                           \o <<"\"">> \o CRLF
                           \o <<"Content-Type:", " ", "text/plain">>
             IN  head \o (IF p.filename # <<>> THEN file ELSE <<>>)
                      \o CRLF \o CRLF \o p.content \o CRLF
                      \o encode_parts(Tail(parts))

\* no multipart request has been received: nothing was sent, and the decoder
\* was not called
NoUpload ==
    [content_type |-> <<>>, parts |-> <<>>, body |-> <<>>,
     result |-> [returned |-> "pending", files |-> <<>>, form_data |-> <<>>]]


\* ---------------------------------------------------------- the filesystem
\* A node is <<drive, components>>; fs maps the nodes that exist to their
\* kind and content.  The operating system resolves a path to a node as
\* normpath does.
Node(p) ==
    LET d == splitdrive(normpath(p))
    IN  <<d.drive, SplitComps(d.path)>>

Dir == [kind |-> "dir", content |-> <<>>]
File(content) == [kind |-> "file", content |-> content]

Exists(f, n) == n \in DOMAIN f
IsDir(f, n) == n \in DOMAIN f /\ f[n].kind = "dir"
IsRoot(n) == n[2] = <<>>
Parent(n) == <<n[1], SubSeq(n[2], 1, Len(n[2]) - 1)>>
Within(n, top) ==
    /\ n[1] = top[1]
    /\ Len(n[2]) >= Len(top[2])
    /\ SubSeq(n[2], 1, Len(top[2])) = top[2]
Ancestors(n) == {<<n[1], SubSeq(n[2], 1, k)>> : k \in 0..Len(n[2])}

\* the node is the shared root or below it
UnderRoot(n) == n[1] = <<"G:">>

\* G:\a\ holds the file a.t; C:\ is another drive of the machine
InitFs ==
    LET G == <<"G:">>
        C == <<"C:">>
    IN  [n \in {<<G, <<>>>>, <<G, <<<<"a">>>>>>, <<G, <<<<"a">>, <<"a", ".t">>>>>>,
                <<C, <<>>>>, <<C, <<<<"a">>>>>>} |->
            IF Len(n[2]) = 2 THEN File(<<1>>)
            ELSE IF n = <<C, <<<<"a">>>>>> THEN File(<<2>>)
            ELSE Dir]

\* shutil.rmtree / os.remove of a node
Removed(f, n) == Restrict(f, {m \in DOMAIN f : ~Within(m, n)})

\* os.rename of a node with all below it
Moved(f, old, new) ==
    LET image(m) == <<new[1], new[2] \o SubSeq(m[2], Len(old[2]) + 1, Len(m[2]))>>
        kept == {m \in DOMAIN f : ~Within(m, old)}
        moved == {m \in DOMAIN f : Within(m, old)}
    IN  [m \in kept \cup {image(x) : x \in moved} |->
            IF m \in kept THEN f[m]
            ELSE f[CHOOSE x \in moved : image(x) = m]]

\* ------------------------------------------------------------------- Init
EmptyMap == [k \in {} |-> NoSession]
NoResponse == Response("none", NoToken, 0)

\* the client connections, and a connection with no request on it
Clients == {"A", "B"}
IdleRequest ==
    [pc |-> "idle", kind |-> "none", token |-> NoToken, dir |-> <<>>,
     content |-> <<>>, received |-> FALSE, user |-> NoUser, stored |-> <<>>,
     txn |-> EmptyMap]

User(username, password, role, is_active) ==
    [username |-> username, password |-> password, role |-> role,
     is_active |-> is_active]

\* an init_database that inserts the default admin on every start
init_database_reset(usrs) ==
    [u \in DOMAIN usrs \cup {1} |->
        IF u = 1 THEN User("admin", hash_password("admin123"), "admin", TRUE)
        ELSE usrs[u]]

\* init_database: the default admin is inserted when the table is empty
init_database(usrs) ==
    IF DOMAIN usrs = {}
    THEN [u \in {1} |-> User("admin", hash_password("admin123"), "admin", TRUE)]
    ELSE usrs

\* callao.db as an earlier run left it: the default admin and one user
StoredUsers ==
    [u \in {1, 2} |->
        IF u = 1 THEN User("admin", hash_password("admin123"), "admin", TRUE)
        ELSE User("bob", hash_password("pw"), "user", TRUE)]

\* the sessions table of callao.db at start-up: bob (token 1) and admin
\* (token 2) logged in during the earlier run and did not log out
StoredSessions ==
    [k \in {1, 2} |-> [user_id |-> IF k = 1 THEN 2 ELSE 1,
                       expires_at |-> SessionTimeout]]

\* and the rows those two logins appended to activity_logs
StoredLogs ==
    <<Entry(2, "login", <<>>, "success", <<>>),
      Entry(1, "login", <<>>, "success", <<>>)>>

\* CallaoServer.__init__ on that callao.db: the cache of the new process is
\* empty
Init ==
    /\ users = init_database(StoredUsers)
    /\ db_sessions = StoredSessions
    /\ sessions = EmptyMap
    /\ activity_logs = StoredLogs
    /\ now = 0
    /\ next_token = 3
    /\ restarting = FALSE
    /\ fs = InitFs
    /\ resp = NoResponse
    /\ inflight = [c \in Clients |-> IdleRequest]
    /\ multipart = NoUpload

\* --------------------------------------------------------------- handlers
\* the log is kept within MaxLog rows
CanLog == Len(activity_logs) < MaxLog

\* a refusal that records the refused request in activity_logs
Denied_logged(op, token, a) ==
    /\ sessions' = a.sessions
    /\ db_sessions' = a.db
    /\ resp' = Response(op, token, 401)
    /\ activity_logs' = IF CanLog
                        THEN log_activity(activity_logs, NoUser, op, <<>>,
                                          "error", <<>>)
                        ELSE activity_logs
    /\ UNCHANGED <<users, next_token, restarting, fs>>

\* the reply of every handler whose require_auth returned no user
Denied(op, token, a) ==
    /\ sessions' = a.sessions
    /\ db_sessions' = a.db
    /\ resp' = Response(op, token, 401)
    /\ UNCHANGED <<users, activity_logs, next_token, restarting, fs>>

\* a handler that changed nothing but what require_auth changed
Reply(op, token, a, status) ==
    /\ sessions' = a.sessions
    /\ db_sessions' = a.db
    /\ resp' = Response(op, token, status)
    /\ UNCHANGED <<users, activity_logs, next_token, restarting, fs>>

\* a handle_login that does not look at is_active
handle_login_any_account(username, password) ==
    /\ UNCHANGED now
    /\ IF username = "" \/ password = ""
       THEN /\ resp' = Response("login", NoToken, 400)
            /\ UNCHANGED <<users, db_sessions, sessions, activity_logs,
                           next_token, restarting, fs>>
       ELSE LET found == {u \in DOMAIN users : users[u].username = username}
                ok == {u \in found :
                          verify_password(password, users[u].password)}
            IN  /\ CanLog
                /\ IF ok # {}
                   THEN LET user_id == CHOOSE u \in ok : TRUE
                        IN  /\ next_token <= MaxTokens
                            /\ db_sessions' = create_session_db(
                                   db_sessions, user_id, next_token, now)
                            /\ sessions' = create_session_cache(
                                   sessions, user_id, next_token, now)
                            /\ next_token' = next_token + 1
                            /\ activity_logs' = log_activity(activity_logs,
                                   user_id, "login", <<>>, "success", <<>>)
                            /\ resp' = Response("login", next_token, 200)
                            /\ UNCHANGED <<users, restarting, fs>>
                   ELSE /\ activity_logs' = log_activity(activity_logs,
                               NoUser, "login_failed", <<username>>, "error", <<>>)
                        /\ resp' = Response("login", NoToken, 401)
                        /\ UNCHANGED <<users, db_sessions, sessions,
                                       next_token, restarting, fs>>

\* handle_login: the row of the username, is_active, verify_password
handle_login(username, password) ==
    /\ UNCHANGED now
    /\ IF username = "" \/ password = ""
       THEN /\ resp' = Response("login", NoToken, 400)
            /\ UNCHANGED <<users, db_sessions, sessions, activity_logs,
                           next_token, restarting, fs>>
       ELSE LET found == {u \in DOMAIN users : users[u].username = username}
                ok == {u \in found : users[u].is_active
                         /\ verify_password(password, users[u].password)}
            IN  /\ CanLog
                /\ IF ok # {}
                   THEN LET user_id == CHOOSE u \in ok : TRUE
                        IN  /\ next_token <= MaxTokens
                            /\ db_sessions' = create_session_db(
                                   db_sessions, user_id, next_token, now)
                            /\ sessions' = create_session_cache(
                                   sessions, user_id, next_token, now)
                            /\ next_token' = next_token + 1
                            /\ activity_logs' = log_activity(activity_logs,
                                   user_id, "login", <<>>, "success", <<>>)
                            /\ resp' = Response("login", next_token, 200)
                            /\ UNCHANGED <<users, restarting, fs>>
                   ELSE /\ activity_logs' = log_activity(activity_logs,
                               NoUser, "login_failed", <<username>>, "error", <<>>)
                        /\ resp' = Response("login", NoToken, 401)
                        /\ UNCHANGED <<users, db_sessions, sessions,
                                       next_token, restarting, fs>>

\* a handle_logout that forgets the token in the cache only
handle_logout_cache_only(token) ==
    LET a == get_auth_user(users, sessions, db_sessions, token, now)
    IN  /\ UNCHANGED now
        /\ resp' = Response("logout", token, 200)
        /\ db_sessions' = a.db
        /\ IF a.user # NoUser
           THEN /\ CanLog
                /\ sessions' = Restrict(a.sessions,
                                        DOMAIN a.sessions \ {token})
                /\ activity_logs' = log_activity(activity_logs, a.user,
                                        "logout", <<>>, "success", <<>>)
           ELSE /\ sessions' = a.sessions
                /\ UNCHANGED activity_logs
        /\ UNCHANGED <<users, next_token, restarting, fs>>

handle_logout(token) ==
    LET a == get_auth_user(users, sessions, db_sessions, token, now)
    IN  /\ UNCHANGED now
        /\ resp' = Response("logout", token, 200)
        /\ IF a.user # NoUser
           THEN /\ CanLog
                /\ db_sessions' = Restrict(a.db, DOMAIN a.db \ {token})
                /\ sessions' = Restrict(a.sessions,
                                        DOMAIN a.sessions \ {token})
                /\ activity_logs' = log_activity(activity_logs, a.user,
                                        "logout", <<>>, "success", <<>>)
           ELSE /\ db_sessions' = a.db
                /\ sessions' = a.sessions
                /\ UNCHANGED activity_logs
        /\ UNCHANGED <<users, next_token, restarting, fs>>

handle_get_users(token) ==
    LET a == require_auth(users, sessions, db_sessions, token, "admin", now)
    IN  /\ UNCHANGED now
        /\ IF a.user = NoUser THEN Denied("get_users", token, a)
           ELSE Reply("get_users", token, a, 200)

\* a handle_storage_stats that answers whoever asks
handle_storage_stats_open(token) ==
    LET a == require_auth(users, sessions, db_sessions, token, NoField, now)
    IN  /\ UNCHANGED now
        /\ Reply("storage_stats", token, a, 200)

handle_storage_stats(token) ==
    LET a == require_auth(users, sessions, db_sessions, token, NoField, now)
    IN  /\ UNCHANGED now
        /\ IF a.user = NoUser THEN Denied("storage_stats", token, a)
           ELSE Reply("storage_stats", token, a, 200)

\* int(limit) raises ValueError on a non-numeric text; nothing catches it,
\* so the connection is closed without a response (status 0)
handle_get_activity_logs(token, limit) ==
    LET a == require_auth(users, sessions, db_sessions, token, NoField, now)
    IN  /\ UNCHANGED now
        /\ IF a.user = NoUser THEN Denied("activity_logs", token, a)
           ELSE IF PyInt(limit) = -1
           THEN Reply("activity_logs", token, a, 0)
           ELSE Reply("activity_logs", token, a, 200)

handle_create_user(token, username, password, role) ==
    LET a == require_auth(users, sessions, db_sessions, token, "admin", now)
        user_id == Cardinality(DOMAIN users) + 1
    IN  /\ UNCHANGED now
        /\ IF a.user = NoUser THEN Denied("create_user", token, a)
           ELSE IF username = "" \/ password = ""
           THEN Reply("create_user", token, a, 400)
           ELSE IF \E u \in DOMAIN users : users[u].username = username
           THEN Reply("create_user", token, a, 400)
           ELSE /\ CanLog
                /\ user_id <= MaxUsers
                /\ users' = [u \in DOMAIN users \cup {user_id} |->
                               IF u = user_id
                               THEN User(username, hash_password(password),
                                         role, TRUE)
                               ELSE users[u]]
                /\ activity_logs' = log_activity(activity_logs, a.user,
                                        "create_user", <<username>>, "success", <<>>)
                /\ sessions' = a.sessions
                /\ db_sessions' = a.db
                /\ resp' = Response("create_user", token, 200)
                /\ UNCHANGED <<next_token, restarting, fs>>

\* the body of PUT /api/users/{id}: the fields present in the JSON object
UpdateData == [role : Roles \cup {NoField}, isActive : {"true", "false", NoField}]

handle_update_user(token, user_id, data) ==
    LET a == require_auth(users, sessions, db_sessions, token, "admin", now)
        row == SqlId(user_id)
        updates == data.role # NoField \/ data.isActive # NoField
    IN  /\ UNCHANGED now
        /\ IF a.user = NoUser THEN Denied("update_user", token, a)
           ELSE /\ CanLog
                /\ users' = IF updates /\ row \in DOMAIN users
                            THEN [users EXCEPT ![row] =
                                    [@ EXCEPT
                                       !.role = IF data.role # NoField
                                                THEN data.role ELSE @,
                                       !.is_active =
                                           IF data.isActive # NoField
                                           THEN data.isActive = "true"
                                           ELSE @]]
                            ELSE users
                /\ activity_logs' = log_activity(activity_logs, a.user,
                                        "update_user", <<user_id>>, "success", <<>>)
                /\ sessions' = a.sessions
                /\ db_sessions' = a.db
                /\ resp' = Response("update_user", token, 200)
                /\ UNCHANGED <<next_token, restarting, fs>>

\* a delete that removes the row: DELETE FROM users WHERE id = ?
handle_delete_user_hard(token, user_id) ==
    LET a == require_auth(users, sessions, db_sessions, token, "admin", now)
        row == SqlId(user_id)
        db == Restrict(a.db, {k \in DOMAIN a.db : a.db[k].user_id # row})
        \* the cache loop calls int(user_id) for each cached session, and
        \* the caller's own session is cached at this point
        raised == DOMAIN a.sessions # {} /\ PyInt(user_id) = -1
    IN  /\ UNCHANGED now
        /\ IF a.user = NoUser THEN Denied("delete_user", token, a)
           ELSE /\ ~raised => CanLog
                /\ users' = Restrict(users, DOMAIN users \ {row})
                /\ db_sessions' = db
                /\ IF raised
                   THEN /\ sessions' = a.sessions
                        /\ UNCHANGED activity_logs
                        /\ resp' = Response("delete_user", token, 500)
                   ELSE /\ sessions' = Restrict(a.sessions,
                               {k \in DOMAIN a.sessions :
                                   a.sessions[k].user_id # PyInt(user_id)})
                        /\ activity_logs' = log_activity(activity_logs,
                               a.user, "delete_user", <<user_id>>, "success", <<>>)
                        /\ resp' = Response("delete_user", token, 200)
                /\ UNCHANGED <<next_token, restarting, fs>>

\* UPDATE users SET is_active = 0: the row stays
handle_delete_user(token, user_id) ==
    LET a == require_auth(users, sessions, db_sessions, token, "admin", now)
        row == SqlId(user_id)
        db == Restrict(a.db, {k \in DOMAIN a.db : a.db[k].user_id # row})
        \* the cache loop calls int(user_id) for each cached session, and
        \* the caller's own session is cached at this point
        raised == DOMAIN a.sessions # {} /\ PyInt(user_id) = -1
    IN  /\ UNCHANGED now
        /\ IF a.user = NoUser THEN Denied("delete_user", token, a)
           ELSE /\ ~raised => CanLog
                /\ users' = IF row \in DOMAIN users
                            THEN [users EXCEPT ![row].is_active = FALSE]
                            ELSE users
                /\ db_sessions' = db
                /\ IF raised
                   THEN /\ sessions' = a.sessions
                        /\ UNCHANGED activity_logs
                        /\ resp' = Response("delete_user", token, 500)
                   ELSE /\ sessions' = Restrict(a.sessions,
                               {k \in DOMAIN a.sessions :
                                   a.sessions[k].user_id # PyInt(user_id)})
                        /\ activity_logs' = log_activity(activity_logs,
                               a.user, "delete_user", <<user_id>>, "success", <<>>)
                        /\ resp' = Response("delete_user", token, 200)
                /\ UNCHANGED <<next_token, restarting, fs>>

handle_change_password(token, user_id, new_password) ==
    LET a == require_auth(users, sessions, db_sessions, token, "admin", now)
        row == SqlId(user_id.text)
    IN  /\ UNCHANGED now
        /\ IF a.user = NoUser THEN Denied("change_password", token, a)
           ELSE IF user_id.kind = "none" \/ new_password = ""
           THEN Reply("change_password", token, a, 400)
           ELSE /\ CanLog
                /\ users' = IF row \in DOMAIN users
                            THEN [users EXCEPT ![row].password =
                                        hash_password(new_password)]
                            ELSE users
                /\ db_sessions' = Restrict(a.db,
                       {k \in DOMAIN a.db : a.db[k].user_id # row})
                /\ sessions' = Restrict(a.sessions,
                       {k \in DOMAIN a.sessions :
                           ~PyEqId(a.sessions[k].user_id, user_id)})
                /\ activity_logs' = log_activity(activity_logs, a.user,
                       "change_password", <<user_id.text>>, "success", <<>>)
                /\ resp' = Response("change_password", token, 200)
                /\ UNCHANGED <<next_token, restarting, fs>>

\* enable_remote_restart of the configuration
EnableRemoteRestart == TRUE

\* restart_server_process: TRUE when the delayed_restart thread was started
restart_server_process == EnableRemoteRestart

handle_server_restart(token) ==
    LET a == require_auth(users, sessions, db_sessions, token, "admin", now)
    IN  /\ UNCHANGED now
        /\ IF a.user = NoUser THEN Denied("server_restart", token, a)
           ELSE /\ CanLog
                /\ activity_logs' = log_activity(activity_logs, a.user,
                                        "server_restart", <<>>, "success", <<>>)
                /\ restarting' = (restarting \/ restart_server_process)
                /\ sessions' = a.sessions
                /\ db_sessions' = a.db
                /\ resp' = Response("server_restart", token,
                                    IF restart_server_process THEN 200 ELSE 500)
                /\ UNCHANGED <<users, next_token, fs>>

\* ------------------------------------------------------- file handlers
\* a handler that changed the log and perhaps the filesystem
Done(op, token, a, status, touched, f, logs) ==
    /\ fs' = f
    /\ activity_logs' = logs
    /\ sessions' = a.sessions
    /\ db_sessions' = a.db
    /\ resp' = ResponseAt(op, token, status, touched)
    /\ UNCHANGED <<users, next_token, restarting>>

\* a handler that stopped after asking the operating system about a path
Refused(op, token, a, status, touched) ==
    Done(op, token, a, status, touched, fs, activity_logs)

handle_list_files(token, path) ==
    LET a == require_auth(users, sessions, db_sessions, token, NoField, now)
        full_path == normpath(IF path # <<>> /\ path # <<"/">>
                              THEN join(drive_path, lstrip(path))
                              ELSE drive_path)
        n == Node(full_path)
    IN  /\ UNCHANGED now
        /\ IF a.user = NoUser THEN Denied("list", token, a)
           ELSE IF ~startswith(full_path, drive_path)
           THEN Reply("list", token, a, 403)
           ELSE IF ~Exists(fs, n) THEN Refused("list", token, a, 404, {n})
           ELSE IF ~IsDir(fs, n)
           \* os.listdir of a file raises
           THEN Refused("list", token, a, 500, {n})
           ELSE /\ CanLog
                /\ Done("list", token, a, 200, {n}, fs,
                        log_activity(activity_logs, a.user, "list_directory",
                            IF path # <<>> THEN path ELSE <<"/">>,
                            "success", <<>>))

handle_download(token, file_path) ==
    LET a == require_auth(users, sessions, db_sessions, token, NoField, now)
        full_path == normpath(join(drive_path, lstrip(file_path)))
        n == Node(full_path)
    IN  /\ UNCHANGED now
        /\ IF a.user = NoUser THEN Denied("download", token, a)
           ELSE IF ~startswith(full_path, drive_path)
           THEN Reply("download", token, a, 403)
           ELSE IF ~Exists(fs, n) \/ IsDir(fs, n)
           THEN Refused("download", token, a, 404, {n})
           ELSE /\ CanLog
                /\ Done("download", token, a, 200, {n}, fs,
                        log_activity(activity_logs, a.user, "download",
                                     file_path, "success", <<>>))

\* the "_<counter>" piece of a disambiguated name
CounterToks == <<"_1", "_2", "_3", "_4", "_5", "_6", "_7", "_8">>

\* an upload loop that keeps the name it was given
unique_filename_same(f, dest_dir, filename) == filename

\* an upload loop that takes a free name, not the first one
unique_filename_last(f, dest_dir, filename) ==
    LET parts == splitext(filename)
        name(c) == parts.base \o <<CounterToks[c]>> \o parts.ext
        free == {c \in 1..Len(CounterToks) :
                    ~Exists(f, Node(join(dest_dir, name(c))))}
    IN  name(CHOOSE c \in free : \A d \in free : c >= d)

\* the upload loop: the first base_<counter>ext that does not exist
unique_filename(f, dest_dir, filename) ==
    LET parts == splitext(filename)
        name(c) == parts.base \o <<CounterToks[c]>> \o parts.ext
        free == {c \in 1..Len(CounterToks) :
                    ~Exists(f, Node(join(dest_dir, name(c))))}
    IN  name(CHOOSE c \in free : \A d \in free : c <= d)

\* the decoded multipart body: the form field path and the part file
handle_upload(token, upload_path, client_filename, file_content, has_file) ==
    LET a == require_auth(users, sessions, db_sessions, token, NoField, now)
        filename == basename(client_filename)
        dest_dir == normpath(IF upload_path # <<>> /\ upload_path # <<"/">>
                             THEN join(drive_path, lstrip(upload_path))
                             ELSE drive_path)
        dest_file == join(dest_dir, filename)
        stored == IF Exists(fs, Node(dest_file))
                  THEN unique_filename(fs, dest_dir, filename)
                  ELSE filename
        d == Node(dest_dir)
        n == Node(join(dest_dir, stored))
        target == replace_slashes(upload_path \o <<"/">> \o stored)
    IN  /\ UNCHANGED now
        /\ IF a.user = NoUser THEN Denied("upload", token, a)
           ELSE IF ~has_file THEN Reply("upload", token, a, 400)
           ELSE IF client_filename = <<>> THEN Reply("upload", token, a, 400)
           ELSE IF Len(file_content) > MaxFileSize
           THEN Reply("upload", token, a, 400)
           ELSE IF ~startswith(dest_dir, drive_path)
                   \/ ~startswith(dest_file, drive_path)
           THEN Reply("upload", token, a, 403)
           ELSE IF ~Exists(fs, d) THEN Refused("upload", token, a, 404, {d})
           ELSE /\ CanLog
                /\ IF ~IsDir(fs, d)
                   \* open() below a file raises; the except branch logs it
                   THEN Done("upload", token, a, 500, {d, n}, fs,
                             log_activity(activity_logs, a.user, "upload",
                                 <<>>, "error", <<"OSError">>))
                   ELSE Done("upload", token, a, 200, {d, n},
                             [m \in DOMAIN fs \cup {n} |->
                                 IF m = n THEN File(file_content) ELSE fs[m]],
                             log_activity(activity_logs, a.user, "upload",
                                 target, "success",
                                 <<"Size:", ToString(Len(file_content))>>))

handle_create_folder(token, path, name) ==
    LET a == require_auth(users, sessions, db_sessions, token, NoField, now)
        full_path == normpath(IF path # <<>> /\ path # <<"/">>
                              THEN join(join(drive_path, lstrip(path)), name)
                              ELSE join(drive_path, name))
        n == Node(full_path)
        missing == {m \in Ancestors(n) : ~Exists(fs, m)}
    IN  /\ UNCHANGED now
        /\ IF a.user = NoUser THEN Denied("create_folder", token, a)
           ELSE IF name = <<>> THEN Reply("create_folder", token, a, 400)
           ELSE IF ~startswith(full_path, drive_path)
           THEN Reply("create_folder", token, a, 403)
           ELSE IF Exists(fs, n)
           \* os.makedirs raises FileExistsError; for the drive root itself
           \* Windows may report another OSError
           THEN \E status \in IF IsRoot(n) THEN {400, 500} ELSE {400} :
                    Refused("create_folder", token, a, status, {n})
           ELSE IF \E m \in Ancestors(n) : Exists(fs, m) /\ ~IsDir(fs, m)
           THEN Refused("create_folder", token, a, 500, {n})
           ELSE /\ CanLog
                /\ Done("create_folder", token, a, 200, missing,
                        [m \in DOMAIN fs \cup missing |->
                            IF m \in missing THEN Dir ELSE fs[m]],
                        log_activity(activity_logs, a.user, "create_folder",
                            path \o <<"/">> \o name, "success", <<>>))

handle_delete(token, path) ==
    LET a == require_auth(users, sessions, db_sessions, token, NoField, now)
        full_path == normpath(join(drive_path, lstrip(path)))
        n == Node(full_path)
    IN  /\ UNCHANGED now
        /\ IF a.user = NoUser THEN Denied("delete", token, a)
           ELSE IF path = <<>> THEN Reply("delete", token, a, 400)
           ELSE IF ~startswith(full_path, drive_path)
           THEN Reply("delete", token, a, 403)
           ELSE IF ~Exists(fs, n) THEN Refused("delete", token, a, 404, {n})
           ELSE IF IsRoot(n)
           \* shutil.rmtree empties the drive, then fails to remove its root
           THEN Done("delete", token, a, 500, {n},
                     Restrict(fs, {m \in DOMAIN fs : m = n \/ ~Within(m, n)}),
                     activity_logs)
           ELSE /\ CanLog
                /\ Done("delete", token, a, 200, {n}, Removed(fs, n),
                        log_activity(activity_logs, a.user, "delete", path,
                                     "success", <<>>))

handle_rename(token, old_path, new_name) ==
    LET a == require_auth(users, sessions, db_sessions, token, NoField, now)
        old_full_path == normpath(join(drive_path, lstrip(old_path)))
        old == Node(old_full_path)
        new_full_path == join(dirname(old_full_path), new_name)
        new == Node(new_full_path)
        \* os.rename on Windows refuses to rename a drive root, to replace
        \* an entry, to cross drives, to move below a missing directory or
        \* below the entry itself
        fails == \/ IsRoot(old)
                 \/ new[1] # old[1]
                 \/ ~startswith(normpath(new_full_path), new[1] \o <<"\\">>)
                 \/ (Exists(fs, new) /\ new # old)
                 \/ IsRoot(new)
                 \/ ~IsDir(fs, Parent(new))
                 \/ (Within(new, old) /\ new # old)
    IN  /\ UNCHANGED now
        /\ IF a.user = NoUser THEN Denied("rename", token, a)
           ELSE IF old_path = <<>> \/ new_name = <<>>
           THEN Reply("rename", token, a, 400)
           ELSE IF ~startswith(old_full_path, drive_path)
           THEN Reply("rename", token, a, 403)
           ELSE IF ~Exists(fs, old)
           THEN Refused("rename", token, a, 404, {old})
           ELSE IF fails THEN Refused("rename", token, a, 500, {old})
           ELSE /\ CanLog
                /\ Done("rename", token, a, 200, {old, new},
                        Moved(fs, old, new),
                        log_activity(activity_logs, a.user, "rename",
                            old_path \o <<" -> ">> \o new_name,
                            "success", <<>>))

\* --------------------------------------------------- unprotected routes
\* GET /api/status and GET / : no require_auth
handle_status ==
    /\ resp' = Response("status", NoToken, 200)
    /\ UNCHANGED <<users, db_sessions, sessions, activity_logs, now,
                   next_token, restarting, fs>>
serve_status_page ==
    /\ resp' = Response("status_page", NoToken, 200)
    /\ UNCHANGED <<users, db_sessions, sessions, activity_logs, now,
                   next_token, restarting, fs>>
\* OPTIONS on any path: the CORS preflight reply
do_OPTIONS ==
    /\ resp' = Response("options", NoToken, 200)
    /\ UNCHANGED <<users, db_sessions, sessions, activity_logs, now,
                   next_token, restarting, fs>>
\* any other method and path: send_error_response('Not found', 404)
not_found ==
    /\ resp' = Response("not_found", NoToken, 404)
    /\ UNCHANGED <<users, db_sessions, sessions, activity_logs, now,
                   next_token, restarting, fs>>

\* ------------------------------------------------------------ environment
\* a clock that is also set back between two requests
Tick_set_back ==
    /\ now' \in {now + 1, now - 1} \cap 0..MaxTime
    /\ resp' = NoResponse
    /\ UNCHANGED <<users, db_sessions, sessions, activity_logs, next_token,
                   restarting, fs, inflight, multipart>>

\* time passes between two requests
Tick ==
    /\ now < MaxTime
    /\ now' = now + 1
    /\ resp' = NoResponse
    /\ UNCHANGED <<users, db_sessions, sessions, activity_logs, next_token,
                   restarting, fs, inflight, multipart>>

\* the process is started again on the same callao.db (by delayed_restart
\* or by the operator): CallaoServer.__init__
Startup ==
    /\ sessions' = EmptyMap
    /\ restarting' = FALSE
    /\ users' = init_database(users)
    /\ resp' = NoResponse
    /\ UNCHANGED <<db_sessions, activity_logs, now, next_token, fs, inflight,
                   multipart>>

\* ------------------------------------------------------- the specification
\* the texts a client sends
P_root == <<"/">>
P_a == <<"/", "a">>
P_file == <<"/", "a", "/", "a", ".t">>
P_b == <<"/", "b">>
P_updir == <<"..", "/", "..", "/", "a">>
P_uproot == <<"a", "/", "..", "/", "..">>
P_other == <<"C:", "\\", "a">>
P_other2 == <<"/", "C:", "/", "a">>
P_other3 == <<"C:", "a">>
P_lower == <<"g:", "\\", "a">>

\* ---- Spec: the session and account lifecycle
LoginInputs == {<<"admin", "admin123">>, <<"bob", "pw">>,
                <<"bob", "admin123">>, <<"", "pw">>}
Login ==
    /\ UNCHANGED <<inflight, multipart>>
    /\ \E c \in LoginInputs : handle_login(c[1], c[2])
Logout ==
    /\ UNCHANGED <<inflight, multipart>>
    /\ \E tok \in TokenInputs : handle_logout(tok)
StorageStats ==
    /\ UNCHANGED <<inflight, multipart>>
    /\ \E tok \in TokenInputs : handle_storage_stats(tok)
UpdateUser ==
    /\ UNCHANGED <<inflight, multipart>>
    /\ \E tok \in TokenInputs, id \in {"1", "2"},
          d \in {x \in UpdateData :
                    x.role = NoField \/ x.isActive = NoField} :
          handle_update_user(tok, id, d)
DeleteUser ==
    /\ UNCHANGED <<inflight, multipart>>
    /\ \E tok \in TokenInputs, id \in IdTexts :
          handle_delete_user(tok, id)
ChangePassword ==
    /\ UNCHANGED <<inflight, multipart>>
    /\ \E tok \in TokenInputs,
          id \in {j \in JsonIds : j.text # "1"}, p \in {"admin123", ""} :
          handle_change_password(tok, id, p)

Next ==
    \/ Login
    \/ Logout
    \/ StorageStats
    \/ UpdateUser
    \/ DeleteUser
    \/ ChangePassword
    \/ Tick
    \/ Startup

Spec == Init /\ [][Next]_vars

\* ---- SpecAll: every route of do_GET, do_POST, do_PUT and do_DELETE, on a
\* few inputs each.  The process starts either right after the stored logins
\* or when their sessions have expired.
InitAll ==
    /\ users = init_database(StoredUsers)
    /\ db_sessions = StoredSessions
    /\ sessions = EmptyMap
    /\ activity_logs = StoredLogs
    /\ now \in {0, SessionTimeout + 1}
    /\ next_token = 3
    /\ restarting = FALSE
    /\ fs = InitFs
    /\ resp = NoResponse
    /\ inflight = [c \in Clients |-> IdleRequest]
    /\ multipart = NoUpload

\* bob with each password, and a username no account has
RLoginInputs == ({"bob"} \X Passwords) \cup {<<"eve", "pw">>}
RLogin ==
    /\ UNCHANGED <<inflight, multipart>>
    /\ \E c \in RLoginInputs : handle_login(c[1], c[2])
RLogout ==
    /\ UNCHANGED <<inflight, multipart>>
    /\ \E tok \in TokenInputs : handle_logout(tok)
RGetUsers ==
    /\ UNCHANGED <<inflight, multipart>>
    /\ \E tok \in TokenInputs : handle_get_users(tok)
RStorageStats ==
    /\ UNCHANGED <<inflight, multipart>>
    /\ \E tok \in TokenInputs : handle_storage_stats(tok)
RGetActivityLogs ==
    /\ UNCHANGED <<inflight, multipart>>
    /\ \E tok \in TokenInputs, l \in {"1", "x"} :
          handle_get_activity_logs(tok, l)
RCreateUser ==
    /\ UNCHANGED <<inflight, multipart>>
    /\ \E tok \in TokenInputs, u \in {"eve", "bob"}, ro \in Roles :
          handle_create_user(tok, u, "pw", ro)
RUpdateUser ==
    /\ UNCHANGED <<inflight, multipart>>
    /\ \E tok \in TokenInputs, id \in {"1", "2"},
          d \in {[role |-> "admin", isActive |-> NoField],
                 [role |-> "user", isActive |-> NoField],
                 [role |-> NoField, isActive |-> "false"]} :
          handle_update_user(tok, id, d)
RDeleteUser ==
    /\ UNCHANGED <<inflight, multipart>>
    /\ \E tok \in TokenInputs : handle_delete_user(tok, "2")
RChangePassword ==
    /\ UNCHANGED <<inflight, multipart>>
    /\ \E tok \in TokenInputs :
          handle_change_password(
              tok, [kind |-> "num", text |-> "2"], "pw")
RServerRestart ==
    /\ UNCHANGED <<inflight, multipart>>
    /\ \E tok \in TokenInputs : handle_server_restart(tok)
RStatus ==
    /\ UNCHANGED <<inflight, multipart>>
    /\ handle_status
RStatusPage ==
    /\ UNCHANGED <<inflight, multipart>>
    /\ serve_status_page
RNotFound ==
    /\ UNCHANGED <<inflight, multipart>>
    /\ not_found
ROptions ==
    /\ UNCHANGED <<inflight, multipart>>
    /\ do_OPTIONS
RListFiles ==
    /\ UNCHANGED <<inflight, multipart>>
    /\ \E tok \in TokenInputs, p \in {P_a, P_other} :
          handle_list_files(tok, p)
RDownload ==
    /\ UNCHANGED <<inflight, multipart>>
    /\ \E tok \in TokenInputs, p \in {P_file, P_other2} :
          handle_download(tok, p)
RUpload ==
    /\ UNCHANGED <<inflight, multipart>>
    /\ \E tok \in TokenInputs, p \in {P_a, P_other} :
          handle_upload(tok, p, <<"a", ".t">>, <<1>>, TRUE)
RCreateFolder ==
    /\ UNCHANGED <<inflight, multipart>>
    /\ \E tok \in TokenInputs, p \in {P_root, P_other} :
          handle_create_folder(tok, p, <<"b">>)
RDelete ==
    /\ UNCHANGED <<inflight, multipart>>
    /\ \E tok \in TokenInputs, p \in {P_a, P_other} :
          handle_delete(tok, p)
RRename ==
    /\ UNCHANGED <<inflight, multipart>>
    /\ \E tok \in TokenInputs, p \in {P_a, P_other} :
          handle_rename(tok, p, <<"b">>)

NextAll ==
    \/ RLogin
    \/ RLogout
    \/ RGetUsers
    \/ RStorageStats
    \/ RGetActivityLogs
    \/ RCreateUser
    \/ RUpdateUser
    \/ RDeleteUser
    \/ RChangePassword
    \/ RServerRestart
    \/ RStatus
    \/ RStatusPage
    \/ RNotFound
    \/ ROptions
    \/ RListFiles
    \/ RDownload
    \/ RUpload
    \/ RCreateFolder
    \/ RDelete
    \/ RRename

SpecAll == InitAll /\ [][NextAll]_vars

\* ---- SpecFS: the file handlers on the texts of PathInputs
PathInputs == {<<>>, P_root, P_a, P_file, P_b, P_updir, P_uproot,
               P_other, P_other2, P_other3, P_lower}
\* bob's token with every text, and a request without a token
FsRequests == ({1} \X PathInputs) \cup {<<NoToken, P_other>>}
\* a new name, a name on another drive, and a name that is a relative path
FsNamed == (FsRequests \X {<<"b">>})
              \cup {<<<<1, p>>, <<"C:", "\\", "b">>>> : p \in {P_a, P_file}}
              \cup {<<<<1, P_file>>, <<"..", "/", "b">>>>}

ListFilesAny ==
    /\ UNCHANGED <<inflight, multipart>>
    /\ \E r \in FsRequests : handle_list_files(r[1], r[2])
DownloadAny ==
    /\ UNCHANGED <<inflight, multipart>>
    /\ \E r \in FsRequests : handle_download(r[1], <<"/">> \o r[2])
UploadAny ==
    /\ UNCHANGED <<inflight, multipart>>
    /\ \E r \in FsRequests :
          handle_upload(r[1], r[2], <<"a", ".t">>, <<1>>, TRUE)
CreateFolderAny ==
    /\ UNCHANGED <<inflight, multipart>>
    /\ \E r \in FsNamed :
          handle_create_folder(r[1][1], r[1][2], r[2])
DeleteAny ==
    /\ UNCHANGED <<inflight, multipart>>
    /\ \E r \in FsRequests : handle_delete(r[1], r[2])
RenameAny ==
    /\ UNCHANGED <<inflight, multipart>>
    /\ \E r \in FsNamed : handle_rename(r[1][1], r[1][2], r[2])

NextFS ==
    \/ ListFilesAny
    \/ DownloadAny
    \/ UploadAny
    \/ CreateFolderAny
    \/ DeleteAny
    \/ RenameAny

SpecFS == Init /\ [][NextFS]_vars

\* ---- SpecSteps: the requests of two clients, handler statement by handler
\* statement, under the server loop of main (HTTPServer.serve_forever)
\* CallaoServer.__init__ on a new callao.db: only the default admin
InitSteps ==
    /\ users = init_database(<<>>)
    /\ db_sessions = EmptyMap
    /\ sessions = EmptyMap
    /\ activity_logs = <<>>
    /\ now = 0
    /\ next_token = 1
    /\ restarting = FALSE
    /\ fs = InitFs
    /\ resp = NoResponse
    /\ inflight = [c \in Clients |-> IdleRequest]
    /\ multipart = NoUpload

\* a client connects and sends the head of a request: an upload of a.t into
\* /a, a login as admin, GET /api/status or POST /api/server/restart.  The
\* body of an upload follows later.
ClientConnect(c) ==
    /\ inflight[c].pc \in {"idle", "done"}
    /\ \E r \in [kind : {"upload"}, token : TokenInputs, content : {<<1>>, <<2>>}]
               \cup [kind : {"login", "status"}, token : {NoToken},
                     content : {<<>>}]
               \cup [kind : {"restart"}, token : TokenInputs, content : {<<>>}] :
          inflight' = [inflight EXCEPT ![c] =
              [IdleRequest EXCEPT !.pc = "sent", !.kind = r.kind,
                                  !.token = r.token, !.dir = P_a,
                                  !.content = r.content,
                                  !.received = (r.kind # "upload")]]
    /\ UNCHANGED <<users, db_sessions, sessions, activity_logs, now,
                   next_token, restarting, fs, resp, multipart>>

\* the rest of the upload's body arrives
ClientSendBody(c) ==
    /\ inflight[c].pc \notin {"idle", "done"}
    /\ ~inflight[c].received
    /\ inflight' = [inflight EXCEPT ![c].received = TRUE]
    /\ UNCHANGED <<users, db_sessions, sessions, activity_logs, now,
                   next_token, restarting, fs, resp, multipart>>

\* HTTPServer is not a ThreadingMixIn server: serve_forever takes the next
\* connection only after the handler of the previous one has returned
server_idle_threaded(fl) == TRUE
server_idle(fl) == \A d \in Clients : fl[d].pc \in {"idle", "sent", "done"}

\* serve_forever accepts the connection and calls the handler
accept(c) ==
    /\ inflight[c].pc = "sent"
    /\ server_idle(inflight)
    /\ inflight[c].kind # "status" => CanLog
    /\ inflight[c].kind = "login" => next_token <= MaxTokens
    /\ inflight' = [inflight EXCEPT ![c].pc =
           CASE inflight[c].kind = "upload" -> "auth"
             [] inflight[c].kind = "login" -> "lookup"
             [] inflight[c].kind = "restart" -> "admin"
             [] OTHER -> "status"]
    /\ UNCHANGED <<users, db_sessions, sessions, activity_logs, now,
                   next_token, restarting, fs, resp, multipart>>

\* the handler has returned and the connection is closed: what stays known
\* is the kind of the request and, for an upload, the name it was stored as
Finished(r) ==
    [IdleRequest EXCEPT !.pc = "done", !.kind = r.kind, !.stored = r.stored]

\* handle_status on a connection
status_step(c) ==
    /\ inflight[c].pc = "status"
    /\ resp' = Response("status", NoToken, 200)
    /\ inflight' = [inflight EXCEPT ![c] = Finished(@)]
    /\ UNCHANGED <<users, db_sessions, sessions, activity_logs, now,
                   next_token, restarting, fs, multipart>>

\* handle_upload, one step per statement group: require_auth; reading the
\* body and choosing the stored name; the write; the log and the response.
\* log_activity has no try of its own: what sqlite3 raises in it reaches the
\* handler that called it.
upload_step(c) ==
    LET r == inflight[c]
        a == require_auth(users, sessions, db_sessions, r.token, NoField, now)
        filename == basename(<<"a", ".t">>)
        dest_dir == normpath(join(drive_path, lstrip(r.dir)))
        dest_file == join(dest_dir, filename)
        d == Node(dest_dir)
        n == Node(join(dest_dir, r.stored))
        finish(status, touched) ==
            /\ resp' = ResponseAt("upload", r.token, status, touched)
            /\ inflight' = [inflight EXCEPT ![c] = Finished(@)]
    IN  /\ r.kind = "upload"
        /\ r.pc \in {"auth", "read", "write", "log"}
        /\ UNCHANGED <<users, now, next_token, restarting, multipart>>
        /\ CASE r.pc = "auth" ->
                  /\ sessions' = a.sessions
                  /\ db_sessions' = a.db
                  /\ UNCHANGED <<activity_logs, fs>>
                  /\ IF a.user = NoUser THEN finish(401, {})
                     ELSE /\ inflight' = [inflight EXCEPT ![c].pc = "read",
                                                          ![c].user = a.user]
                          /\ UNCHANGED resp
             [] r.pc = "read" ->
                  \* rfile.read(content_length) returns when the body is in
                  /\ r.received
                  /\ UNCHANGED <<sessions, db_sessions, activity_logs, fs>>
                  /\ IF ~startswith(dest_dir, drive_path)
                        \/ ~startswith(dest_file, drive_path)
                     THEN finish(403, {})
                     ELSE IF ~Exists(fs, d) THEN finish(404, {d})
                     ELSE /\ inflight' = [inflight EXCEPT
                                 ![c].pc = "write",
                                 ![c].stored =
                                     IF Exists(fs, Node(dest_file))
                                     THEN unique_filename(fs, dest_dir, filename)
                                     ELSE filename]
                          /\ UNCHANGED resp
             [] r.pc = "write" ->
                  /\ fs' = [m \in DOMAIN fs \cup {n} |->
                               IF m = n THEN File(r.content) ELSE fs[m]]
                  /\ inflight' = [inflight EXCEPT ![c].pc = "log"]
                  /\ UNCHANGED <<sessions, db_sessions, activity_logs, resp>>
             [] r.pc = "log" ->
                  /\ UNCHANGED <<sessions, db_sessions, fs>>
                  /\ \/ /\ activity_logs' = log_activity(activity_logs, r.user,
                               "upload",
                               replace_slashes(r.dir \o <<"/">> \o r.stored),
                               "success", <<"Size:", ToString(Len(r.content))>>)
                        /\ finish(200, {d, n})
                     \* the INSERT or the commit of this log_activity call
                     \* raises sqlite3.Error (the database is locked): the
                     \* except branch of handle_upload records the exception
                     \* with a log_activity call of its own and answers 500
                     \/ /\ activity_logs' = log_activity(activity_logs, r.user,
                               "upload", <<>>, "error", <<"sqlite3.Error">>)
                        /\ finish(500, {d, n})

\* a statement executed on a sqlite3 connection inside its transaction: the
\* other connections go on reading the committed rows until conn.commit()
conn_execute_autocommit(committed, pending) == pending
conn_execute(committed, pending) == committed

\* handle_login with create_session statement by statement: the SELECT, the
\* DELETE, the INSERT, conn.commit(), the cache entry, the log and response
login_step(c) ==
    LET r == inflight[c]
        ok == {u \in DOMAIN users : /\ users[u].username = "admin"
                                    /\ users[u].is_active
                                    /\ verify_password("admin123",
                                                       users[u].password)}
        row == [user_id |-> r.user, expires_at |-> now + SessionTimeout]
        deleted == Restrict(r.txn, {k \in DOMAIN r.txn :
                                       r.txn[k].user_id # r.user})
        inserted == [k \in DOMAIN r.txn \cup {r.token} |->
                        IF k = r.token THEN row ELSE r.txn[k]]
    IN  /\ r.kind = "login"
        /\ r.pc \in {"lookup", "delete", "insert", "commit", "cache", "log"}
        /\ UNCHANGED <<users, now, restarting, fs, multipart>>
        /\ CASE r.pc = "lookup" ->
                  /\ UNCHANGED <<sessions, db_sessions>>
                  /\ IF ok = {}
                     THEN /\ activity_logs' = log_activity(activity_logs,
                                 NoUser, "login_failed", <<"admin">>, "error", <<>>)
                          /\ resp' = Response("login", NoToken, 401)
                          /\ inflight' = [inflight EXCEPT ![c] = Finished(@)]
                          /\ UNCHANGED next_token
                     ELSE /\ inflight' = [inflight EXCEPT
                                 ![c].pc = "delete",
                                 ![c].user = CHOOSE u \in ok : TRUE,
                                 ![c].token = next_token,
                                 ![c].txn = db_sessions]
                          /\ next_token' = next_token + 1
                          /\ UNCHANGED <<activity_logs, resp>>
             [] r.pc = "delete" ->
                  /\ inflight' = [inflight EXCEPT ![c].pc = "insert",
                                                  ![c].txn = deleted]
                  /\ db_sessions' = conn_execute(db_sessions, deleted)
                  /\ UNCHANGED <<sessions, activity_logs, next_token, resp>>
             [] r.pc = "insert" ->
                  /\ inflight' = [inflight EXCEPT ![c].pc = "commit",
                                                  ![c].txn = inserted]
                  /\ db_sessions' = conn_execute(db_sessions, inserted)
                  /\ UNCHANGED <<sessions, activity_logs, next_token, resp>>
             [] r.pc = "commit" ->
                  /\ db_sessions' = r.txn
                  /\ inflight' = [inflight EXCEPT ![c].pc = "cache",
                                                  ![c].txn = EmptyMap]
                  /\ UNCHANGED <<sessions, activity_logs, next_token, resp>>
             [] r.pc = "cache" ->
                  /\ sessions' = create_session_cache(sessions, r.user,
                                                      r.token, now)
                  /\ inflight' = [inflight EXCEPT ![c].pc = "log"]
                  /\ UNCHANGED <<db_sessions, activity_logs, next_token, resp>>
             [] r.pc = "log" ->
                  /\ activity_logs' = log_activity(activity_logs, r.user,
                                          "login", <<>>, "success", <<>>)
                  /\ resp' = Response("login", r.token, 200)
                  /\ inflight' = [inflight EXCEPT ![c] = Finished(@)]
                  /\ UNCHANGED <<sessions, db_sessions, next_token>>

\* handle_server_restart statement by statement: require_auth for an admin,
\* the log_activity call, restart_server_process and the response
restart_step(c) ==
    LET r == inflight[c]
        a == require_auth(users, sessions, db_sessions, r.token, "admin", now)
    IN  /\ r.kind = "restart"
        /\ r.pc \in {"admin", "record", "restart"}
        /\ UNCHANGED <<users, now, next_token, fs, multipart>>
        /\ CASE r.pc = "admin" ->
                  /\ sessions' = a.sessions
                  /\ db_sessions' = a.db
                  /\ UNCHANGED <<activity_logs, restarting>>
                  /\ IF a.user = NoUser
                     THEN /\ resp' = Response("server_restart", r.token, 401)
                          /\ inflight' = [inflight EXCEPT ![c] = Finished(@)]
                     ELSE /\ inflight' = [inflight EXCEPT ![c].pc = "record",
                                                          ![c].user = a.user]
                          /\ UNCHANGED resp
             [] r.pc = "record" ->
                  /\ activity_logs' = log_activity(activity_logs, r.user,
                                          "server_restart", <<>>, "success", <<>>)
                  /\ inflight' = [inflight EXCEPT ![c].pc = "restart"]
                  /\ UNCHANGED <<sessions, db_sessions, restarting, resp>>
             [] r.pc = "restart" ->
                  /\ restarting' = (restarting \/ restart_server_process)
                  /\ resp' = Response("server_restart", r.token,
                                      IF restart_server_process THEN 200 ELSE 500)
                  /\ inflight' = [inflight EXCEPT ![c] = Finished(@)]
                  /\ UNCHANGED <<sessions, db_sessions, activity_logs>>

Connect == \E c \in Clients : ClientConnect(c)
SendBody == \E c \in Clients : ClientSendBody(c)
Accept == \E c \in Clients : accept(c)
StatusStep == \E c \in Clients : status_step(c)
UploadStep == \E c \in Clients : upload_step(c)
LoginStep == \E c \in Clients : login_step(c)


NextSteps ==
    \/ Connect
    \/ SendBody
    \/ Accept
    \/ StatusStep
    \/ UploadStep
    \/ LoginStep
    \/ \E c \in Clients : restart_step(c)

SpecSteps == InitSteps /\ [][NextSteps]_vars


\* ---- SpecMultipart: parse_multipart_form_data on the bodies a client sends
\* the Content-Type header of an upload
MultipartType == <<"multipart/form-data", ";", " ", "boundary=">> \o Boundary

\* the requests: the file part 'file'/'a.txt' and the field 'path' in either
\* order, with file contents of up to MaxContent bytes, the content of the
\* examples and contents that hold the delimiter in the middle of a line; a
\* file part under other file names; a request with a body and another
\* Content-Type; a request with no body
Uploads ==
    LET Bytes == {"h", "\r", "\n", "-", "B"}
        RECURSIVE ByteStrings(_)
        ByteStrings(n) ==
            IF n = 0 THEN {<<>>}
            ELSE LET shorter == ByteStrings(n - 1)
                 IN  shorter \cup {Append(b, x) : b \in shorter, x \in Bytes}
        Contents == ByteStrings(MaxContent)
                       \cup {<<"h", "i">>, <<"h", "-", "-", "B">>,
                             <<"h", "-", "-", "B", "h">>}
        Named(filename, content) ==
            [name |-> <<"file">>, filename |-> filename, content |-> content]
        FilePart(content) == Named(<<"a.txt">>, content)
        \* file names a client may send: one that exists in /a, names with
        \* directories in them, a bare "..", a name on another drive
        Filenames == {<<"a", ".t">>, <<"..", "/", "a", ".t">>,
                      <<"b", "\\", "..", "\\", "..", "\\", "c">>, <<"..">>,
                      <<"C:", "\\", "b">>, <<"/", "b">>, <<"b", "/">>}
        FieldPart(text) ==
            [name |-> <<"path">>, filename |-> <<>>, content |-> text]
        ContentTypes == {MultipartType, <<>>, <<"application/json">>,
                         <<"multipart/form-data">>,
                         <<"multipart/form-data", ";", " ", "boundary=">>}
        request(ct, ps) ==
            [NoUpload EXCEPT !.content_type = ct, !.parts = ps,
                             !.body = encode_parts(ps)]
    IN  {request(MultipartType, ps) :
            ps \in UNION {{<<FilePart(c), FieldPart(t)>>,
                           <<FieldPart(t), FilePart(c)>>} :
                            c \in Contents,
                            t \in {<<"/", "docs">>, <<"/", "a">>, <<>>}}}
        \cup {request(MultipartType, <<Named(f, <<"h", "i">>), FieldPart(t)>>) :
                f \in Filenames, t \in {<<"/", "a">>, <<>>}}
        \cup {request(ct, <<FilePart(<<"h", "i">>), FieldPart(<<"/", "docs">>)>>) :
                ct \in ContentTypes \ {MultipartType}}
        \cup {[NoUpload EXCEPT !.content_type = ct] : ct \in ContentTypes}

\* the server started on the callao.db of an earlier run, and one request
InitMultipart ==
    /\ users = init_database(StoredUsers)
    /\ db_sessions = StoredSessions
    /\ sessions = EmptyMap
    /\ activity_logs = StoredLogs
    /\ now = 0
    /\ next_token = 3
    /\ restarting = FALSE
    /\ fs = InitFs
    /\ resp = NoResponse
    /\ inflight = [c \in Clients |-> IdleRequest]
    /\ multipart \in Uploads

\* handle_upload on the request, sent with bob's token or with none: it
\* calls the decoder and goes on with what the decoder returned, the file
\* under 'file' and the text under 'path' with its blanks stripped
Decode ==
    LET result == parse_multipart_form_data(multipart.content_type,
                                            multipart.body)
        has_file == /\ result.returned = "dicts"
                    /\ <<"file">> \in DOMAIN result.files
        file_info == IF has_file THEN result.files[<<"file">>]
                     ELSE [filename |-> <<>>, content |-> <<>>]
        blanks == {" ", "\r", "\n"}
        RECURSIVE lstrip_blanks(_)
        lstrip_blanks(t) ==
            IF t # <<>> /\ t[1] \in blanks THEN lstrip_blanks(Tail(t)) ELSE t
        upload_path ==
            IF result.returned = "dicts" /\ <<"path">> \in DOMAIN result.form_data
            THEN rstrip(lstrip_blanks(result.form_data[<<"path">>]), blanks)
            ELSE <<>>
    IN  /\ multipart.result.returned = "pending"
        /\ multipart' = [multipart EXCEPT !.result = result]
        /\ UNCHANGED inflight
        /\ \E token \in {1, NoToken} :
              handle_upload(token, upload_path, file_info.filename,
                            file_info.content, has_file)

SpecMultipart == InitMultipart /\ [][Decode]_vars

\* ============================================================== the claims
IssuedTokens == 1..(next_token - 1)

\* C1: every real path a file handler asks the operating system about is the
\* shared root G:\ or below it, nothing outside the root is created, removed
\* or changed, and a request refused by the prefix check leaves the
\* filesystem as it was
C1_PathSandbox ==
    [][/\ \A n \in resp'.touched : UnderRoot(n)
       /\ \A n \in DOMAIN fs \cup DOMAIN fs' :
             ~UnderRoot(n) => /\ n \in DOMAIN fs
                              /\ n \in DOMAIN fs'
                              /\ fs'[n] = fs[n]
       /\ resp'.status = 403 => fs' = fs]_vars

\* a delete aimed at the other drive was refused after the shared tree had
\* been changed by an earlier request; the other drive is as it was
C1_Witness ==
    /\ resp.op = "delete"
    /\ resp.status = 403
    /\ fs # InitFs
    /\ \A n \in DOMAIN InitFs : ~UnderRoot(n) => (n \in DOMAIN fs /\ fs[n] = InitFs[n])

\* what validate_session and get_auth_user return for a token right now
Validated(token) == validate_session(sessions, db_sessions, token, now).session
Authenticates(token) ==
    get_auth_user(users, sessions, db_sessions, token, now).user # NoUser

\* the user a presented token belongs to (the cache is looked up first)
Owner(token) ==
    IF token \in DOMAIN sessions THEN sessions[token].user_id
    ELSE IF token \in DOMAIN db_sessions THEN db_sessions[token].user_id
    ELSE NoUser

HasSession(sess, db, user_id) ==
    \/ \E k \in DOMAIN sess : sess[k].user_id = user_id
    \/ \E k \in DOMAIN db : db[k].user_id = user_id

\* the expiry time of the token's session has passed
Expired(token) ==
    \/ token \in DOMAIN sessions /\ sessions[token].expires_at < now
    \/ token \in DOMAIN db_sessions /\ db_sessions[token].expires_at < now

\* the handlers whose first step is require_auth
ProtectedOps == {"list", "download", "upload", "create_folder", "delete",
                 "rename", "server_restart", "get_users", "create_user",
                 "update_user", "delete_user", "change_password",
                 "activity_logs", "storage_stats"}
AdminOps == {"server_restart", "get_users", "create_user", "update_user",
             "delete_user", "change_password"}

\* C2: in every reachable state at most one token of a user validates: a
\* token issued to a user before that user's latest create_session does not
\* validate any more
C2_SingleActiveSession ==
    \A t1 \in IssuedTokens, t2 \in IssuedTokens :
        (t1 # t2 /\ Validated(t1) # NoSession /\ Validated(t2) # NoSession)
            => Validated(t1).user_id # Validated(t2).user_id

\* C3: a request to a protected handler that presents a token of a user who
\* is inactive is answered 401, and a logout with such a token revokes
\* nothing and logs nothing
C3_InactiveUserFails ==
    [][\A tok \in IssuedTokens :
          (resp'.token = tok /\ Owner(tok) \in DOMAIN users
             /\ ~users[Owner(tok)].is_active)
          => /\ resp'.op \in ProtectedOps => resp'.status = 401
             /\ resp'.op = "logout" => activity_logs' = activity_logs]_vars

\* a request with an unexpired session of a deactivated user was refused
C3_Witness ==
    /\ resp.status = 401
    /\ resp.token \in DOMAIN sessions
    /\ now < sessions[resp.token].expires_at
    /\ ~users[sessions[resp.token].user_id].is_active

\* C4: a handler invocation that deactivates a user leaves no session of
\* that user in the cache or in the durable store
C4_DeactivationRevokes ==
    [][\A u \in DOMAIN users :
          (resp'.op \in {"update_user", "delete_user"}
             /\ users[u].is_active /\ ~users'[u].is_active)
          => ~HasSession(sessions', db_sessions', u)]_vars

\* C5: after a successful change-password request for a user, no session of
\* that user is left in the cache or in the durable store
C5_PasswordChangeRevokes ==
    [][(resp'.op = "change_password" /\ resp'.status = 200)
          => ~HasSession(sessions', db_sessions',
                 SqlId(activity_logs'[Len(activity_logs')].target[1]))]_vars

\* C6: a request that presents a token whose expiry time has passed is not
\* authenticated, and afterwards the token is in neither layer
C6_ExpiredIsPurged ==
    [][\A tok \in IssuedTokens :
          (resp'.token = tok /\ resp'.op \in ProtectedOps \cup {"logout"}
             /\ Expired(tok))
          => /\ tok \notin DOMAIN sessions'
             /\ tok \notin DOMAIN db_sessions'
             /\ resp'.op \in ProtectedOps => resp'.status = 401
             /\ resp'.op = "logout" => activity_logs' = activity_logs]_vars

\* nothing was revoked (no entry was logged), yet the request with token 1
\* was refused and its row is gone from the store: it was purged as expired
C6_Witness ==
    /\ activity_logs = StoredLogs
    /\ resp.token = 1
    /\ resp.status = 401
    /\ now > SessionTimeout
    /\ 1 \notin DOMAIN sessions
    /\ 1 \notin DOMAIN db_sessions

\* C7: a token authenticates exactly when the store holds its session (it
\* was created and not revoked), the session is unexpired and its user is
\* active
C7_AuthIffValid ==
    \A tok \in IssuedTokens :
        Authenticates(tok) <=>
            /\ tok \in DOMAIN db_sessions
            /\ now < db_sessions[tok].expires_at
            /\ db_sessions[tok].user_id \in DOMAIN users
            /\ users[db_sessions[tok].user_id].is_active

\* the principal get_auth_user returns for a token right now
Principal(token) ==
    get_auth_user(users, sessions, db_sessions, token, now).user

\* require_auth turns the request down: nobody is authenticated, or the
\* handler asks for role admin and the principal's role is another one
AuthFails(op, token) ==
    \/ Principal(token) = NoUser
    \/ op \in AdminOps /\ users[Principal(token)].role # "admin"

\* no session was created or revoked: every token validates as before, and
\* no token appeared in the cache or in the store
SessionsKept ==
    /\ \A tok \in IssuedTokens : Validated(tok)' = Validated(tok)
    /\ (DOMAIN sessions' \cup DOMAIN db_sessions')
           \subseteq (DOMAIN sessions \cup DOMAIN db_sessions)

\* C8: a protected handler whose authentication or authorization fails
\* answers 401, and changes neither the filesystem nor the users table, adds
\* no activity entry, issues no token and creates or revokes no session
C8_DeniedHasNoEffect ==
    [][(resp'.op \in ProtectedOps /\ AuthFails(resp'.op, resp'.token))
          => /\ resp'.status = 401
             /\ fs' = fs
             /\ users' = users
             /\ activity_logs' = activity_logs
             /\ next_token' = next_token
             /\ restarting' = restarting
             /\ SessionsKept]_vars

\* an upload that presented an expired token was refused, and the tree and
\* the log are those of the start
C8_Witness ==
    /\ resp.op = "upload"
    /\ resp.status = 401
    /\ resp.token = 1
    /\ now > SessionTimeout
    /\ fs = InitFs
    /\ activity_logs = StoredLogs

\* C9: an admin-only handler answers other than 401 only to a principal
\* whose role is "admin" at the time of the request; for a principal with
\* another role it answers 401 and leaves the users table, the sessions and
\* the restart state as they were
C9_AdminOnly ==
    [][resp'.op \in AdminOps
          => /\ resp'.status # 401
                  => /\ Principal(resp'.token) # NoUser
                     /\ users[Principal(resp'.token)].role = "admin"
             /\ (Principal(resp'.token) # NoUser
                    /\ users[Principal(resp'.token)].role # "admin")
                  => /\ resp'.status = 401
                     /\ users' = users
                     /\ db_sessions' = db_sessions
                     /\ restarting' = restarting
                     /\ SessionsKept]_vars

\* the first account, whose role an update changed from "admin", asked for a
\* restart with its unexpired token and was refused; no restart is pending
C9_Witness ==
    /\ resp.op = "server_restart"
    /\ resp.status = 401
    /\ resp.token = 2
    /\ Principal(2) = 1
    /\ users[1].role # "admin"
    /\ ~restarting

C11_FailedLoginIsLogged ==
    [][\A c \in RLoginInputs :
          (/\ handle_login(c[1], c[2])
           /\ c[1] # ""
           /\ c[2] # ""
           /\ ~\E u \in DOMAIN users : /\ users[u].username = c[1]
                                        /\ users[u].password = hash_password(c[2]))
          => /\ resp'.status = 401
             /\ db_sessions' = db_sessions
             /\ sessions' = sessions
             /\ next_token' = next_token
             /\ activity_logs' = Append(activity_logs,
                    Entry(NoUser, "login_failed", <<c[1]>>, "error", <<>>))]_vars

\* the login of the unknown eve was refused and is the last row of the log;
\* the stored sessions are those of the start
C11_Witness ==
    /\ resp.op = "login"
    /\ resp.status = 401
    /\ Len(activity_logs) = Len(StoredLogs) + 1
    /\ activity_logs[Len(activity_logs)] =
           Entry(NoUser, "login_failed", <<"eve">>, "error", <<>>)
    /\ db_sessions = StoredSessions

\* C12: in any sequence of uploads into one directory, uploads of the same
\* filename included, no step removes a file or changes the bytes of a file
\* that exists, and the write of every upload creates one entry that did not
\* exist before, under the name the upload answers with, holding exactly the
\* uploaded bytes: so the stored names are pairwise distinct and every
\* uploaded content stays readable under its own name
C12_UploadsNeverOverwrite ==
    [][/\ \A n \in DOMAIN fs : n \in DOMAIN fs' /\ fs'[n] = fs[n]
       /\ \A c \in Clients :
             (inflight[c].pc = "write" /\ inflight'[c].pc = "log")
             => LET n == Node(join(normpath(join(drive_path,
                                  lstrip(inflight[c].dir))), inflight'[c].stored))
                IN  /\ n \notin DOMAIN fs
                    /\ DOMAIN fs' = DOMAIN fs \cup {n}
                    /\ fs'[n] = File(inflight[c].content)]_vars

\* two uploads of a.t into /a, where a.t existed: the old a.t keeps its
\* byte 1 next to a_1.t with the byte 2 and a_2.t
C12_Witness ==
    LET stored(name) == <<<<"G:">>, <<<<"a">>, name>>>>
    IN  /\ stored(<<"a", "_1", ".t">>) \in DOMAIN fs
        /\ stored(<<"a", "_2", ".t">>) \in DOMAIN fs
        /\ fs[stored(<<"a", ".t">>)] = File(<<1>>)
        /\ fs[stored(<<"a", "_1", ".t">>)] = File(<<2>>)

\* C13: two uploads of one filename into one directory that are on their
\* connections at the same time never both choose the same stored name: the
\* names recorded for the two clients' uploads always differ
C13_ConcurrentUploadsChooseDistinctNames ==
    \A c, d \in Clients :
        (/\ c # d
         /\ inflight[c].kind = "upload" /\ inflight[c].stored # <<>>
         /\ inflight[d].kind = "upload" /\ inflight[d].stored # <<>>)
        => inflight[c].stored # inflight[d].stored

\* the handler of A's upload has chosen a_1.t and not yet written it, while
\* B's upload of the same a.t with the same token is already on its connection
C13_Witness ==
    /\ inflight["A"].kind = "upload"
    /\ inflight["A"].pc = "write"
    /\ inflight["A"].stored = <<"a", "_1", ".t">>
    /\ inflight["B"].kind = "upload"
    /\ inflight["B"].pc = "sent"
    /\ inflight["B"].received
    /\ inflight["B"].token = inflight["A"].token

\* C14: every request is handled by a worker of its own: a GET /api/status
\* that a client has sent can be accepted by the server whatever the requests
\* of the other clients are doing, an upload whose body is still on its way
\* included
C14_SlowTransferStallsNobody ==
    \A c \in Clients :
        (inflight[c].pc = "sent" /\ inflight[c].kind = "status")
        => ENABLED accept(c)

\* C16: the DELETE of the user's old rows and the INSERT of the new row of
\* create_session reach the sessions table as one unit: whatever step the
\* server takes, a reader of the table finds at most one row of any user
\* after it, and still finds a row of every user who had one before it
C16_CreateSessionIsAtomic ==
    [][\A u \in DOMAIN users :
          LET rows(db) == {k \in DOMAIN db : db[k].user_id = u}
          IN  /\ Cardinality(rows(db_sessions')) <= 1
              /\ rows(db_sessions) # {} => rows(db_sessions') # {}]_vars

\* admin logs in again: the DELETE of the row of token 1 and the INSERT of
\* the row of token 2 are executed and not yet committed, and the table still
\* shows the row of token 1
C16_Witness ==
    \E c \in Clients :
        /\ inflight[c].kind = "login"
        /\ inflight[c].pc = "commit"
        /\ DOMAIN inflight[c].txn = {2}
        /\ DOMAIN db_sessions = {1}

\* C15: once a revoke of a token has completed (the logout with the token,
\* the deactivation of its user or the change of its user's password), the
\* token is in neither the cache nor the store and validate_session returns
\* None for it
C15_RevokeIsFinal ==
    [][\A tok \in IssuedTokens :
          LET u == Owner(tok)
              logout == /\ resp'.op = "logout"
                        /\ resp'.token = tok
                        /\ Authenticates(tok)
              deactivation == /\ resp'.op = "update_user"
                              /\ users[u].is_active
                              /\ ~users'[u].is_active
              password_change == /\ resp'.op = "change_password"
                                 /\ users'[u].password # users[u].password
          IN  (\/ logout
               \/ /\ u \in DOMAIN users
                  /\ u \in DOMAIN users'
                  /\ resp'.status = 200
                  /\ deactivation \/ password_change)
              => /\ tok \notin DOMAIN sessions'
                 /\ tok \notin DOMAIN db_sessions'
                 /\ Validated(tok)' = NoSession]_vars

\* C17: a session never becomes active again: once validate_session returns
\* None for a token that was issued (its session expired or was revoked), it
\* returns None for that token after every later login, logout, other
\* request, passage of time and restart of the server.  (validate_session
\* reads the two layers and the clock: a step that leaves the three as they
\* were changes the result for no token.)
C17_NoWayBackToActive ==
    [][\/ UNCHANGED <<sessions, db_sessions, now>>
       \/ \A tok \in IssuedTokens :
             Validated(tok) = NoSession => Validated(tok)' = NoSession]_vars

\* bob's token 1 has expired and its row is still in the store, bob has
\* logged in again and holds token 3, and token 1 validates to None
C17_Witness ==
    /\ 1 \in DOMAIN db_sessions \cup DOMAIN sessions
    /\ Expired(1)
    /\ Validated(1) = NoSession
    /\ 3 \in IssuedTokens
    /\ Validated(3) # NoSession
    /\ Validated(3).user_id = Owner(1)

\* C18: a logout with a token that authenticates leaves the token in neither
\* the cache nor the store, get_auth_user returns nobody for it afterwards,
\* and every session of every other token is in the layers it was in, with
\* the row it had
C18_LogoutRevokesOnlyItsToken ==
    [][\A tok \in IssuedTokens :
          (handle_logout(tok) /\ Authenticates(tok))
          => /\ tok \notin DOMAIN sessions'
             /\ tok \notin DOMAIN db_sessions'
             /\ Principal(tok)' = NoUser
             /\ \A k \in IssuedTokens \ {tok} :
                   /\ k \in DOMAIN sessions <=> k \in DOMAIN sessions'
                   /\ k \in DOMAIN sessions => sessions'[k] = sessions[k]
                   /\ k \in DOMAIN db_sessions <=> k \in DOMAIN db_sessions'
                   /\ k \in DOMAIN db_sessions
                         => db_sessions'[k] = db_sessions[k]]_vars

\* bob has logged out with token 1: the logout is the last row of the log,
\* token 1 is gone and the admin's token 2 still authenticates
C18_Witness ==
    /\ resp.op = "logout"
    /\ resp.token = 1
    /\ Len(activity_logs) > 0
    /\ activity_logs[Len(activity_logs)].action = "logout"
    /\ 1 \notin DOMAIN sessions \cup DOMAIN db_sessions
    /\ 2 \in DOMAIN db_sessions
    /\ Principal(1) = NoUser
    /\ Principal(2) # NoUser

\* C19: an authenticated list, download, upload, create-folder, delete or
\* rename request whose path resolves outside the shared root is answered as
\* a request for an entry that does not exist is answered: with status 404
C19_EscapeLooksMissing ==
    [][LET outside(p) ==
               ~startswith(normpath(join(drive_path, lstrip(p))), drive_path)
           escapes(r) == Principal(r[1]) # NoUser /\ outside(r[2])
       IN  /\ \A r \in FsRequests :
                 (/\ escapes(r)
                  /\ \/ handle_list_files(r[1], r[2])
                     \/ handle_download(r[1], <<"/">> \o r[2])
                     \/ handle_upload(r[1], r[2], <<"a", ".t">>, <<1>>, TRUE)
                     \/ handle_delete(r[1], r[2]))
                 => resp'.status = 404
           /\ \A r \in FsNamed :
                 (/\ escapes(r[1])
                  /\ \/ handle_create_folder(r[1][1], r[1][2], r[2])
                     \/ handle_rename(r[1][1], r[1][2], r[2]))
                 => resp'.status = 404]_vars

\* C20: a rename whose new_name holds a path separator is refused and
\* leaves the filesystem as it was, and after a rename answered 200 the
\* entry is in the directory it was in before
C20_RenameStaysInParent ==
    [][\A r \in FsNamed :
          LET old_full_path == normpath(join(drive_path, lstrip(r[1][2])))
              old == Node(old_full_path)
              new == Node(join(dirname(old_full_path), r[2]))
              separator == \E i \in 1..Len(r[2]) : r[2][i] \in {"/", "\\"}
          IN  handle_rename(r[1][1], r[1][2], r[2])
              => /\ separator => resp'.status # 200 /\ fs' = fs
                 /\ resp'.status = 200
                       => /\ new \in DOMAIN fs'
                          /\ Parent(new) = Parent(old)]_vars

C22_DecodeInvertsEncode ==
    \A file \in 1..2 :
        (/\ multipart.result.returned = "dicts"
         /\ Len(multipart.parts) = 2
         /\ multipart.parts[file].filename # <<>>
         /\ find(multipart.parts[file].content,
                 <<"-", "-">> \o Boundary, 1) = 0)
        => /\ <<"file">> \in DOMAIN multipart.result.files
           /\ multipart.result.files[<<"file">>].content =
                  multipart.parts[file].content

\* C23: a file whose content holds the delimiter elsewhere than at the start
\* of a line is decoded as one part with its whole content, and the body
\* yields no part besides the file and the field
C23_BoundaryInContentIsContent ==
    \A file \in 1..2 :
        (/\ multipart.result.returned = "dicts"
         /\ Len(multipart.parts) = 2
         /\ multipart.parts[file].filename # <<>>
         /\ LET c == multipart.parts[file].content
                at == find(c, <<"-", "-">> \o Boundary, 1)
            IN  /\ at > 1
                /\ c[at - 1] # "\n"
                /\ c = rstrip(c, {"\r", "\n", "-"}))
        => /\ DOMAIN multipart.result.files = {<<"file">>}
           /\ DOMAIN multipart.result.form_data = {<<"path">>}
           /\ multipart.result.files[<<"file">>].content =
                  multipart.parts[file].content

\* C24: the decoder tells its outcomes apart: for a request without a body
\* it returns the two dicts, empty, and for a Content-Type with no boundary
\* or an empty one it returns the error value
C24_EmptyBodyIsNotAnError ==
    multipart.result.returned # "pending"
    => /\ (multipart.body = <<>> /\ multipart.content_type = MultipartType)
             => /\ multipart.result.returned = "dicts"
                /\ multipart.result.files = <<>>
                /\ multipart.result.form_data = <<>>
       /\ multipart.content_type \in {<<"multipart/form-data">>,
              <<"multipart/form-data", ";", " ", "boundary=">>}
             => multipart.result.returned = "None"

\* C25: a failure of log_activity changes nothing for the caller: an upload
\* that has written its file and reaches its log_activity call answers with
\* the success response, whether that call fails or not
C25_LogFailureKeepsOutcome ==
    [][\A c \in Clients :
          (/\ inflight[c].kind = "upload"
           /\ inflight[c].pc = "log"
           /\ inflight'[c].pc = "done")
          => resp'.status = 200]_vars

\* C26: a state-changing operation of an authenticated user that fails (here
\* an upload, a folder creation, a delete or a rename that the operating
\* system or the handler's own code made fail, answered 500) appends an
\* activity entry with status 'error' and a detail text that is not empty
C26_FailureIsRecorded ==
    [][(/\ resp'.op \in {"upload", "create_folder", "delete", "rename"}
        /\ resp'.status = 500)
       => /\ Len(activity_logs') = Len(activity_logs) + 1
          /\ activity_logs'[Len(activity_logs')].status = "error"
          /\ activity_logs'[Len(activity_logs')].details # <<>>]_vars

\* C27: a handler records an operation only after it has performed it: when
\* a connection's handler appends an entry for a success, the effect is
\* there: the uploaded file is on the drive, the session of a login is
\* cached, the restart of a server restart has been started
C27_RecordedAfterEffect ==
    [][\A c \in Clients :
          (/\ inflight'[c] # inflight[c]
           /\ Len(activity_logs') = Len(activity_logs) + 1
           /\ activity_logs'[Len(activity_logs')].status = "success")
          => LET r == inflight[c]
             IN  CASE r.kind = "upload" ->
                        Exists(fs, Node(join(normpath(join(drive_path,
                                                           lstrip(r.dir))),
                                             r.stored)))
                   [] r.kind = "login" ->
                        /\ r.token \in DOMAIN sessions
                        /\ sessions[r.token].user_id = r.user
                   [] r.kind = "restart" -> restarting
                   [] OTHER -> FALSE]_vars

\* C28: of the read handlers, list, download and storage-stats append one
\* activity entry for each request they answer with success, and status
\* appends none
C28_ReadsAreRecordedButStatus ==
    [][/\ (resp'.op \in {"list", "download", "storage_stats"}
           /\ resp'.status = 200)
          => Len(activity_logs') = Len(activity_logs) + 1
       /\ resp'.op = "status" => activity_logs' = activity_logs]_vars

\* C29: the activity log is append-only: whatever request is handled, the
\* entries that were in the log are still there, in their places and with
\* their fields, and new entries only come after them
C29_LogIsAppendOnly ==
    [][/\ Len(activity_logs') >= Len(activity_logs)
       /\ SubSeq(activity_logs', 1, Len(activity_logs)) = activity_logs]_vars

\* a request was recorded after the rows the log held at start-up
C29_Witness ==
    /\ Len(activity_logs) > Len(StoredLogs)
    /\ SubSeq(activity_logs, 1, Len(StoredLogs)) = StoredLogs
    /\ resp.status = 200

\* C30: no request removes a user record: the ids in the users table stay,
\* and a successful DELETE /api/users/{id} changes nothing in the table
\* but the active flag of that user, which it clears
C30_UsersAreNeverRemoved ==
    [][/\ DOMAIN users \subseteq DOMAIN users'
       /\ (resp'.op = "delete_user" /\ resp'.status = 200)
          => \A u \in DOMAIN users :
                \/ users'[u] = users[u]
                \/ users'[u] = [users[u] EXCEPT !.is_active = FALSE]]_vars

\* bob was deleted by the admin: his record is there, inactive
C30_Witness ==
    /\ resp.op = "delete_user"
    /\ resp.status = 200
    /\ 2 \in DOMAIN users
    /\ users[2].username = "bob"
    /\ ~users[2].is_active

\* C31: the default admin account is created on a start with an empty users
\* table, and only then: that start leaves exactly the account admin, and a
\* start on a table that holds accounts creates none and leaves every
\* account as it is, whatever the user-management requests made of them
C31_DefaultAdminOnlyOnEmptyStore ==
    [][Startup
       => /\ DOMAIN users # {} => users' = users
          /\ LET created == init_database(<<>>)
             IN  /\ Cardinality(DOMAIN created) = 1
                 /\ \A u \in DOMAIN created :
                       created[u].username = "admin"]_vars

\* the server was started again after the admin account had been changed
\* (another password, another role or deactivated): it is still changed
C31_Witness ==
    /\ resp = NoResponse
    /\ sessions = EmptyMap
    /\ 1 \in DOMAIN users
    /\ users[1] # StoredUsers[1]

\* C32: an upload whose file is larger than max_file_size is refused and
\* nothing is written: the response is an error and the drive is as it was;
\* a file of exactly max_file_size bytes, sent into the root or into /a, is
\* accepted
C32_OversizeIsRejected ==
    [][\A file \in 1..Len(multipart.parts) :
          (/\ multipart.content_type = MultipartType
           /\ multipart.parts[file].name = <<"file">>
           /\ resp'.op = "upload"
           /\ resp'.status # 401)
          => LET size == Len(multipart.parts[file].content)
                 path == multipart.parts[3 - file].content
             IN  /\ size > MaxFileSize
                    => resp'.status >= 400 /\ fs' = fs
                 /\ (size = MaxFileSize /\ path \in {<<>>, <<"/", "a">>})
                    => resp'.status = 200]_vars

\* C33: whatever file name the client sends, with directories in it, with
\* ".." or ".." alone, an upload that succeeds creates one file, directly
\* in the directory its path field resolves to, and leaves every other
\* entry of the drives as it was
C33_UploadLandsInDestination ==
    [][\A file \in 1..Len(multipart.parts) :
          (/\ multipart.content_type = MultipartType
           /\ multipart.parts[file].name = <<"file">>
           /\ resp'.op = "upload"
           /\ resp'.status = 200)
          => LET path == multipart.parts[3 - file].content
                 dest == Node(normpath(join(drive_path, lstrip(path))))
                 new == DOMAIN fs' \ DOMAIN fs
             IN  /\ Cardinality(new) = 1
                 /\ \A n \in new : /\ fs'[n].kind = "file"
                                   /\ n[2] # <<>>
                                   /\ Parent(n) = dest
                 /\ \A m \in DOMAIN fs : fs'[m] = fs[m]]_vars

\* the upload of '../a.t' into /a is stored in /a, under the free name a_1.t
C33_Witness ==
    /\ resp.op = "upload"
    /\ resp.status = 200
    /\ multipart.parts[1].filename = <<"..", "/", "a", ".t">>
    /\ multipart.parts[2].content = <<"/", "a">>
    /\ Exists(fs, <<<<"G:">>, <<<<"a">>, <<"a", "_1", ".t">>>>>>)

\* C34: every request is answered: whatever a handler runs into, a text
\* that is no number where a number is read included, the client receives
\* a response with a status (a 500 when the handler raised)
C34_EveryRequestIsAnswered ==
    resp.op # "none" => resp.status >= 200

\* C35: a token that is not in the cache (the server was started again) and
\* whose row in the sessions table has not expired still validates: the
\* request made with it is served when its user is active, the table is
\* left as it is, and the cache then holds for the token the user id and
\* the expiry of the row
C35_ColdLookupRepopulates ==
    [][\A k \in DOMAIN db_sessions :
          (/\ k \notin DOMAIN sessions
           /\ now < db_sessions[k].expires_at
           /\ handle_storage_stats(k))
          => /\ k \in DOMAIN sessions'
             /\ sessions'[k] = db_sessions[k]
             /\ db_sessions' = db_sessions
             /\ users[db_sessions[k].user_id].is_active
                => resp'.status = 200]_vars

\* after the start on the stored sessions, bob's token was validated from
\* the table and is cached with the row's values
C35_Witness ==
    /\ resp.op = "storage_stats"
    /\ resp.status = 200
    /\ resp.token = 1
    /\ DOMAIN sessions = {1}
    /\ sessions[1] = StoredSessions[1]
    /\ db_sessions = StoredSessions

\* C36: an upload of a.t is stored as a.t when that name is free in the
\* destination directory, and otherwise as a_<n>.t for the smallest n >= 1
\* whose name is free there; the name in the activity entry and the file
\* the response reports are the name and the file that were written
C36_SmallestFreeCounter ==
    [][\A c \in Clients :
          LET r == inflight[c]
              q == inflight'[c]
              at(name) == Node(join(normpath(join(drive_path, lstrip(r.dir))),
                                    name))
              numbered(k) == <<"a", CounterToks[k], ".t">>
          IN  /\ (r.kind = "upload" /\ r.pc = "read" /\ q.pc = "write")
                 => IF ~Exists(fs, at(<<"a", ".t">>))
                    THEN q.stored = <<"a", ".t">>
                    ELSE \E n \in 1..Len(CounterToks) :
                            /\ q.stored = numbered(n)
                            /\ ~Exists(fs, at(numbered(n)))
                            /\ \A k \in 1..(n - 1) : Exists(fs, at(numbered(k)))
              /\ (/\ r.kind = "upload" /\ r.pc = "log" /\ q.pc = "done"
                  /\ resp'.status = 200)
                 => /\ activity_logs'[Len(activity_logs')].target =
                          r.dir \o <<"/">> \o r.stored
                    /\ at(r.stored) \in resp'.touched
                    /\ Exists(fs, at(r.stored))
                    /\ fs[at(r.stored)].content = r.content]_vars

\* a.t and a_1.t were taken: an upload was stored as a_2.t and recorded
C36_Witness ==
    /\ Exists(fs, <<<<"G:">>, <<<<"a">>, <<"a", "_2", ".t">>>>>>)
    /\ resp.op = "upload"
    /\ resp.status = 200
    /\ activity_logs # <<>>
    /\ activity_logs[Len(activity_logs)].target =
           <<"/", "a", "/", "a", "_2", ".t">>

\* C37: the session cache agrees with the sessions table: every token the
\* cache holds has a row in the table, with the same user id and the same
\* expiry
C37_CacheWithinStore ==
    \A k \in DOMAIN sessions :
        /\ k \in DOMAIN db_sessions
        /\ db_sessions[k] = sessions[k]

\* C38: a delete whose path resolves to the root of the shared drive is
\* refused: it is answered with an error and removes nothing, and the root
\* directory is there in every state
C38_RootIsNotDeleted ==
    [][/\ Exists(fs', <<<<"G:">>, <<>>>>)
       /\ (resp'.op = "delete" /\ \E n \in resp'.touched : IsRoot(n))
          => resp'.status >= 400 /\ fs' = fs]_vars

\* C39: a login with the right password for an account that was
\* deactivated is refused as a login with a wrong password is: status 401,
\* a login_failed entry for the username, no token issued, and the sessions
\* of every user, in the cache and in the table, as they were
C39_InactiveLoginIsRefused ==
    [][\A c \in LoginInputs :
          (/\ \E u \in DOMAIN users :
                 /\ users[u].username = c[1]
                 /\ ~users[u].is_active
                 /\ verify_password(c[2], users[u].password)
           /\ handle_login(c[1], c[2]))
          => /\ resp' = Response("login", NoToken, 401)
             /\ activity_logs' = Append(activity_logs,
                    Entry(NoUser, "login_failed", <<c[1]>>, "error", <<>>))
             /\ sessions' = sessions
             /\ db_sessions' = db_sessions
             /\ next_token' = next_token]_vars

\* bob has been deactivated and a login as bob was refused
C39_Witness ==
    /\ ~users[2].is_active
    /\ resp = Response("login", NoToken, 401)
    /\ activity_logs[Len(activity_logs)] =
           Entry(NoUser, "login_failed", <<"bob">>, "error", <<>>)

\* C40: there is always an administrator: in every state some user with
\* role 'admin' is active, whatever updates, deactivations and role changes
\* were requested, by an admin on their own account included
C40_AnActiveAdminRemains ==
    \E u \in DOMAIN users : users[u].role = "admin" /\ users[u].is_active

====
